---- MODULE Spec2Model ----
(***************************************************************************)
(* Story checker task pane: Paragraph Normalizer, Hierarchy Builder, Text  *)
(* Locator, Annotation Manager and Scope Priority Resolver.                *)
(*                                                                         *)
(* Strings are sequences of one-character strings, so that trim, includes, *)
(* split and the regular expressions of the source are computed.           *)
(***************************************************************************)
EXTENDS Integers, Sequences, FiniteSets, TLC

VARIABLES
  paragraphs,   \* context.document.body.paragraphs: the snapshot of the document
  bld,          \* locals of buildBulletPointsData while it runs
  ret,          \* value returned by the last buildBulletPointsData call
  prevRet,      \* value returned by the call before that
  calls,        \* number of completed buildBulletPointsData calls
  target,       \* searchText handed to the Text Locator
  found,        \* what findTextInDocument of the session task pane returned
  foundTp,      \* what findTextInDocument of frontend/src/taskpane returned
  comments,     \* the live comments of the document, in insertion order
  highlight,    \* the paragraphs whose font.highlightColor is "yellow"
  redText,      \* the paragraphs whose font.color is "red"
  unattachable, \* the paragraphs on which the editor refuses insertComment
  evaluationResults,  \* let evaluationResults
  activeScope,        \* let activeScope
  commentRanges,      \* let commentRanges: pairs <<key, paragraph>>
  lastCheckResults,   \* let lastCheckResults
  scoreUI,      \* the text of #score-display and the tier of #score-message
  sent,         \* the request the most recent handler posted to the gateway
  logged,       \* the tags of what the most recent handler logged
  tasks,        \* the listener invocations in flight, each at an await
  listeners,    \* the click listeners registered on the buttons
  op            \* the most recent handler, its argument, and whether the
                \* handler before it was the same one with the same argument

buildVars == <<bld, ret, prevRet, calls>>
locVars == <<target, found, foundTp>>
annVars == <<comments, highlight, redText>>
stateVars == <<evaluationResults, activeScope, commentRanges, lastCheckResults, scoreUI>>
sessVars == <<comments, highlight, redText, unattachable, evaluationResults, activeScope,
              commentRanges, lastCheckResults, scoreUI, sent, logged, op,
              tasks, listeners>>
uiVars == <<tasks, listeners>>
vars == <<paragraphs, bld, ret, prevRet, calls, target, found, foundTp,
          comments, highlight, redText, unattachable, evaluationResults,
          activeScope, commentRanges, lastCheckResults, scoreUI, sent, logged, op,
          tasks, listeners>>

(***************************************************************************)
(* Bounds                                                                  *)
(***************************************************************************)
MaxParas == 4     \* paragraphs in a document of the builder specification
MaxCalls == 2     \* buildBulletPointsData calls on one snapshot
MaxLocParas == 2  \* paragraphs in a document of the locator specification
MaxResults == 2   \* findings stored in the resolver specification
MaxTasks == 2     \* listener invocations in flight at once
MaxListeners == 3 \* listeners on one scope button (one more per annotated check)

NULL == "null"

\* the null returned by buildBulletPointsData (a record, to compare with requests)
NullRequest == [null |-> TRUE]

(***************************************************************************)
(* String helpers (JavaScript String methods)                              *)
(***************************************************************************)
WS == {" "}
Digits == {"0", "1", "2", "3", "4", "5", "6", "7", "8", "9"}
\* the glyphs U+2022, "-", "*", U+25CB, U+30FB; a non-ASCII character is
\* written as the name of its code unit
Glyphs == {"U2022", "-", "*", "U25CB", "U30FB"}

SetMin(S) == CHOOSE x \in S : \A y \in S : x <= y
SetMax(S) == CHOOSE x \in S : \A y \in S : y <= x

\* String.prototype.trim
Trim(s) ==
  LET keep == {k \in 1..Len(s) : s[k] \notin WS}
  IN IF keep = {} THEN <<>> ELSE SubSeq(s, SetMin(keep), SetMax(keep))

\* String.prototype.startsWith
StartsWith(s, p) == Len(p) <= Len(s) /\ SubSeq(s, 1, Len(p)) = p

\* String.prototype.includes
Includes(s, sub) ==
  \E k \in 0..(Len(s) - Len(sub)) : SubSeq(s, k + 1, k + Len(sub)) = sub

\* String.prototype.substring(0, n)
Substring0(s, n) == IF Len(s) <= n THEN s ELSE SubSeq(s, 1, n)

\* length of the longest prefix of s made of characters of C
PrefixRun(s, C) ==
  LET stop == {k \in 1..Len(s) : s[k] \notin C}
  IN IF stop = {} THEN Len(s) ELSE SetMin(stop) - 1

DropFirst(s, n) == SubSeq(s, n + 1, Len(s))

\* text.match(/^\d+[\.\)]\s/)
MatchesNumbered(s) ==
  LET d == PrefixRun(s, Digits)
  IN d >= 1 /\ Len(s) >= d + 2 /\ s[d + 1] \in {".", ")"} /\ s[d + 2] \in WS

\* text.replace(/^[<glyphs>]\s*/, '')
StripGlyph(s) ==
  IF Len(s) >= 1 /\ s[1] \in Glyphs
  THEN LET r == DropFirst(s, 1) IN DropFirst(r, PrefixRun(r, WS))
  ELSE s

\* text.replace(/^\d+[\.\)]\s*/, '')
StripNumbering(s) ==
  LET d == PrefixRun(s, Digits)
  IN IF d >= 1 /\ Len(s) >= d + 1 /\ s[d + 1] \in {".", ")"}
     THEN LET r == DropFirst(s, d + 1) IN DropFirst(r, PrefixRun(r, WS))
     ELSE s

(***************************************************************************)
(* Paragraph Normalizer (first loop of buildBulletPointsData)              *)
(***************************************************************************)
IndentUnitInch == 3 * 24

IndentUnit == 24

IsBulletPoint(p) ==
  LET text == Trim(p.text)
  IN \/ \E g \in Glyphs : StartsWith(text, <<g>>)
     \/ MatchesNumbered(text)
     \/ p.leftIndent > 0
     \/ p.firstLineIndent < 0

Min2(a, b) == IF a <= b THEN a ELSE b

LevelOfOneBased(p) ==
  IF p.leftIndent > 0 THEN Min2(2, p.leftIndent \div IndentUnit + 1) ELSE 0

LevelOf(p) ==
  IF p.leftIndent > 0 THEN Min2(2, p.leftIndent \div IndentUnit) ELSE 0

CleanText(p) == Trim(StripNumbering(StripGlyph(Trim(p.text))))

RECURSIVE ExtractFrom(_, _, _)
ExtractFrom(paras, titleText, k) ==
  IF k > Len(paras) THEN <<>>
  ELSE LET p == paras[k]
           text == Trim(p.text)
           rest == ExtractFrom(paras, titleText, k + 1)
       IN IF text = <<>> THEN rest
          ELSE IF text = titleText THEN rest
          ELSE IF IsBulletPoint(p)
               THEN <<[text |-> CleanText(p), level |-> LevelOf(p), paragraph |-> k]>> \o rest
               ELSE rest

ExtractBullets(paras, titleText) == ExtractFrom(paras, titleText, 1)

(***************************************************************************)
(* Hierarchy Builder (second loop of buildBulletPointsData)                *)
(*                                                                         *)
(* Summary and Message objects live in a heap (sums, msgs) and are         *)
(* referenced by identity, as the JavaScript objects are: summaries holds  *)
(* the ids pushed to bulletPointsData.summaries, a summary's messages the  *)
(* ids pushed to it; currentSummary and currentMessage are ids, 0 is null. *)
(***************************************************************************)
\* the placeholder content, three code units U+672A U+5206 U+985E
Unclassified == <<"U672A", "U5206", "U985E">>

NewLocalsStale(bps) == [bld EXCEPT !.pc = "loop", !.bulletPoints = bps, !.i = 1]

\* the locals at the entry of the second loop: bulletPointsData.summaries = [],
\* currentSummary = null, currentMessage = null
NewLocals(bps) ==
  [pc |-> "loop", bulletPoints |-> bps, i |-> 1,
   sums |-> <<>>, msgs |-> <<>>, summaries |-> <<>>,
   currentSummary |-> 0, currentMessage |-> 0, threw |-> FALSE]

IdleLocals ==
  [pc |-> "idle", bulletPoints |-> <<>>, i |-> 1,
   sums |-> <<>>, msgs |-> <<>>, summaries |-> <<>>,
   currentSummary |-> 0, currentMessage |-> 0, threw |-> FALSE]

\* Heap objects carry an auxiliary field src: the index in bulletPoints of the
\* candidate the object was made from, 0 for a synthesized placeholder.  The
\* field is not part of the request (Tree drops it).

\* currentSummary = {content, messages: []}; bulletPointsData.summaries.push(currentSummary)
PushNewSummary(b, content, src) ==
  LET id == Len(b.sums) + 1
  IN [b EXCEPT !.sums = Append(@, [content |-> content, messages |-> <<>>, src |-> src]),
               !.summaries = Append(@, id),
               !.currentSummary = id]

\* currentMessage = {content, bodies: []}; currentSummary.messages.push(currentMessage)
\* (a push on null throws a TypeError)
PushNewMessage(b, content, src) ==
  IF b.currentSummary = 0 THEN [b EXCEPT !.threw = TRUE]
  ELSE LET id == Len(b.msgs) + 1
       IN [b EXCEPT !.msgs = Append(@, [content |-> content, bodies |-> <<>>, src |-> src]),
                    !.currentMessage = id,
                    !.sums[b.currentSummary].messages = Append(@, id)]

\* currentMessage.bodies.push({content: text})
PushBody(b, content, src) ==
  IF b.currentMessage = 0 THEN [b EXCEPT !.threw = TRUE]
  ELSE [b EXCEPT !.msgs[b.currentMessage].bodies =
                    Append(@, [content |-> content, src |-> src])]

Level0Unshift(b, text) ==
  LET id == Len(b.sums) + 1
  IN [b EXCEPT !.sums = Append(@, [content |-> text, messages |-> <<>>, src |-> b.i]),
               !.summaries = <<id>> \o @,
               !.currentSummary = id,
               !.currentMessage = 0]

Level0KeepMessage(b, text) == PushNewSummary(b, text, b.i)

\* level === 0
Level0(b, text) == [PushNewSummary(b, text, b.i) EXCEPT !.currentMessage = 0]

Level1Detached(b, text) ==
  LET b1 == IF b.currentSummary = 0
            THEN [b EXCEPT !.sums = Append(@, [content |-> Unclassified,
                                               messages |-> <<>>, src |-> 0]),
                           !.currentSummary = Len(b.sums) + 1]
            ELSE b
  IN PushNewMessage(b1, text, b.i)

\* level === 1
Level1(b, text) ==
  LET b1 == IF b.currentSummary = 0 THEN PushNewSummary(b, Unclassified, 0) ELSE b
  IN PushNewMessage(b1, text, b.i)

Level2Always(b, text) ==
  LET b0 == IF b.currentSummary = 0 THEN PushNewSummary(b, Unclassified, 0) ELSE b
  IN PushBody(PushNewMessage(b0, Unclassified, 0), text, b.i)

\* level === 2
Level2(b, text) ==
  LET b1 == IF b.currentMessage = 0
            THEN LET b0 == IF b.currentSummary = 0
                           THEN PushNewSummary(b, Unclassified, 0) ELSE b
                 IN PushNewMessage(b0, Unclassified, 0)
            ELSE b
  IN PushBody(b1, text, b.i)

ProcessBulletKeepEmpty(b, bp) ==
  IF bp.level = 0 THEN Level0(b, bp.text)
  ELSE IF bp.level = 1 THEN Level1(b, bp.text)
  ELSE IF bp.level = 2 THEN Level2(b, bp.text)
  ELSE b

\* body of the loop over bulletPoints; b.i is the index of bp
ProcessBullet(b, bp) ==
  IF bp.text = <<>> THEN b
  ELSE IF bp.level = 0 THEN Level0(b, bp.text)
  ELSE IF bp.level = 1 THEN Level1(b, bp.text)
  ELSE IF bp.level = 2 THEN Level2(b, bp.text)
  ELSE b

\* the BulletPointsRequest object reachable from bulletPointsData
Tree(b, titleText) ==
  [title |-> titleText,
   summaries |->
     [k \in 1..Len(b.summaries) |->
        LET s == b.sums[b.summaries[k]]
        IN [content |-> s.content,
            messages |->
              [j \in 1..Len(s.messages) |->
                 LET m == b.msgs[s.messages[j]]
                 IN [content |-> m.content,
                     bodies |-> [h \in 1..Len(m.bodies) |->
                                   [content |-> m.bodies[h].content]]]]]]]

RECURSIVE BuildLoop(_)
BuildLoop(b) ==
  IF b.threw \/ b.i > Len(b.bulletPoints) THEN b
  ELSE BuildLoop([ProcessBullet(b, b.bulletPoints[b.i]) EXCEPT !.i = b.i + 1])

\* buildBulletPointsData run to completion: null, or the request
buildBulletPointsData(paras, titleText) ==
  LET bps == ExtractBullets(paras, titleText)
  IN IF Len(bps) = 0 THEN NullRequest
     ELSE Tree(BuildLoop(NewLocals(bps)), titleText)

(***************************************************************************)
(* Documents of the builder specification                                  *)
(***************************************************************************)
Para(text, li, fli) == [text |-> text, leftIndent |-> li, firstLineIndent |-> fli]

ParagraphSet ==
  { Para(<<>>, 0, 0),                    \* empty paragraph
    Para(<<"T">>, 0, 0),                 \* plain text, not a bullet
    Para(<<"U2022", " ", "A">>, 0, 0),       \* glyph, level 0
    Para(<<"U2022", " ", "B">>, 24, 0),      \* glyph, level 1
    Para(<<"U2022", " ", "C">>, 48, 0),      \* glyph, level 2
    Para(<<"U2022">>, 24, 0),                \* glyph only: empty after cleanup
    Para(<<"1", ".", " ", "D">>, 0, 0),  \* numbered, level 0
    Para(<<"F">>, 72, 0),                \* three units: capped at level 2
    Para(<<"H">>, 12, 0),                \* half a unit: a bullet of level 0
    Para(<<"G">>, 0, -18) }              \* hanging indent, level 0

Documents == UNION { [1..n -> ParagraphSet] : n \in 1..MaxParas }

\* run(): titleParagraph = paragraphs.getFirst(); titleParagraph.text
TitleText(paras) == paras[1].text

(***************************************************************************)
(* Text Locator                                                            *)
(*                                                                         *)
(* A located range is [para, whole, tier]: the paragraph it lies in,       *)
(* whether it is the whole paragraph (paragraph.getRange()) or the matched *)
(* text (a search hit), and the tier that produced it; para = 0 is null.   *)
(***************************************************************************)
NoRange(tier) == [para |-> 0, whole |-> FALSE, tier |-> tier]
ParaRange(k, tier) == [para |-> k, whole |-> TRUE, tier |-> tier]
HitRange(k, tier) == [para |-> k, whole |-> FALSE, tier |-> tier]
Pending == NoRange("pending")

\* String.prototype.split(/\s+/): the separators are the maximal runs of
\* white space; a leading or trailing run leaves an empty string
RECURSIVE SplitRuns(_)
SplitRuns(s) ==
  LET ws == {k \in 1..Len(s) : s[k] \in WS}
  IN IF ws = {} THEN <<s>>
     ELSE LET p == SetMin(ws)
              r == DropFirst(s, p)
          IN <<SubSeq(s, 1, p - 1)>> \o SplitRuns(DropFirst(r, PrefixRun(r, WS)))

\* String.prototype.split(' '): every space is a separator
RECURSIVE SplitSpace(_)
SplitSpace(s) ==
  LET sp == {k \in 1..Len(s) : s[k] = " "}
  IN IF sp = {} THEN <<s>>
     ELSE LET p == SetMin(sp)
          IN <<SubSeq(s, 1, p - 1)>> \o SplitSpace(DropFirst(s, p))

\* Array.prototype.join(' ')
RECURSIVE JoinSpace(_)
JoinSpace(ws) ==
  IF Len(ws) = 0 THEN <<>>
  ELSE IF Len(ws) = 1 THEN ws[1]
  ELSE ws[1] \o <<" ">> \o JoinSpace(Tail(ws))

\* first of the paragraphs a for loop's test accepts, 0 if none
FirstPara(hits) == IF hits = {} THEN 0 ELSE SetMin(hits)

MaxSearchLength == 255
PrefixLength == 10

IsLongWord(w) == Len(w) > 3

\* words.reduce((a, b) => a.length > b.length ? a : b)
RECURSIVE ReduceLongest(_, _)
ReduceLongest(a, ws) ==
  IF Len(ws) = 0 THEN a
  ELSE ReduceLongest(IF Len(a) > Len(ws[1]) THEN a ELSE ws[1], Tail(ws))

\* findTextInDocument of the session task pane
findTextInDocument(searchText, paras) ==
  IF searchText = <<>> \/ Trim(searchText) = <<>> THEN NoRange("empty")
  ELSE
    LET effectiveSearchText == Substring0(searchText, MaxSearchLength)
        HasText(t) == Includes(t, effectiveSearchText)
        k1 == FirstPara({k \in 1..Len(paras) : HasText(paras[k].text)})
        words == SelectSeq(SplitRuns(effectiveSearchText), IsLongWord)
        longestWord == ReduceLongest(words[1], Tail(words))
        HasWord(t) == Includes(t, longestWord)
        k2 == IF Len(words) > 0 THEN FirstPara({k \in 1..Len(paras) : HasWord(paras[k].text)}) ELSE 0
        prefix == Substring0(effectiveSearchText, PrefixLength)
        HasPrefix(t) == Includes(t, prefix)
        k3 == IF Len(effectiveSearchText) > PrefixLength
              THEN FirstPara({k \in 1..Len(paras) : HasPrefix(paras[k].text)}) ELSE 0
    IN IF k1 # 0 THEN ParaRange(k1, "includes")
       ELSE IF k2 # 0 THEN ParaRange(k2, "longest_word")
       ELSE IF k3 # 0 THEN ParaRange(k3, "prefix")
       ELSE NoRange("not_found")

\* commonWords of extractKeywords, as code units
CommonWords ==
  { <<"U3053", "U308C">>, <<"U305D", "U308C">>, <<"U3042", "U308C">>,
    <<"U3053", "U306E">>, <<"U305D", "U306E">>, <<"U3042", "U306E">>,
    <<"U307E", "U3059">>, <<"U3067", "U3059">>, <<"U3057", "U305F">>,
    <<"U3042", "U308B">>, <<"U3044", "U308B">>, <<"U308C", "U308B">>,
    <<"U3089", "U308C", "U308B">>, <<"U306A", "U3069">>,
    <<"U305F", "U3081">>, <<"U3088", "U3046">> }

IsKeyword(w) == ~(Len(w) < 3) /\ w \notin CommonWords

\* Array.from(new Set(ws)): the first occurrence of each element, in order
RECURSIVE Dedupe(_)
Dedupe(ws) ==
  IF Len(ws) = 0 THEN <<>>
  ELSE LET front == Dedupe(SubSeq(ws, 1, Len(ws) - 1))
           w == ws[Len(ws)]
       IN IF \E k \in 1..Len(front) : front[k] = w THEN front ELSE Append(front, w)

extractKeywords(text) == Dedupe(SelectSeq(SplitRuns(text), IsKeyword))

\* documentText.search(s).items[0]: the first hit of the literal s in the body
SearchBody(paras, s) ==
  LET HasIt(t) == Includes(t, s) IN FirstPara({k \in 1..Len(paras) : HasIt(paras[k].text)})

MinSearchLength == 3
MaxShortWords == 5

\* the first keyword longer than 3 code units that has a hit, 0 if none
RECURSIVE KeywordHit(_, _)
KeywordHit(paras, kws) ==
  IF Len(kws) = 0 THEN 0
  ELSE IF Len(kws[1]) > 3 /\ SearchBody(paras, kws[1]) # 0
       THEN SearchBody(paras, kws[1])
       ELSE KeywordHit(paras, Tail(kws))

\* findTextInDocument of frontend/src/taskpane/taskpane.ts
findTextInDocumentTp(searchText, paras) ==
  IF Len(searchText) < MinSearchLength THEN NoRange("too_short")
  ELSE
    LET IsExact(t) == Trim(t) = Trim(searchText)
        k1 == FirstPara({k \in 1..Len(paras) : IsExact(paras[k].text)})
        HasText(t) == Includes(t, searchText)
        k2 == FirstPara({k \in 1..Len(paras) : HasText(paras[k].text)})
        words == SplitSpace(searchText)
        shortSearchText == JoinSpace(SubSeq(words, 1, Min2(MaxShortWords, Len(words))))
        k3 == IF Len(searchText) > PrefixLength /\ Len(shortSearchText) > 3
              THEN SearchBody(paras, shortSearchText) ELSE 0
        k4 == KeywordHit(paras, extractKeywords(searchText))
    IN IF k1 # 0 THEN ParaRange(k1, "exact")
       ELSE IF k2 # 0 THEN ParaRange(k2, "includes")
       ELSE IF k3 # 0 THEN HitRange(k3, "short_text")
       ELSE IF k4 # 0 THEN HitRange(k4, "keyword")
       ELSE NoRange("not_found")

(***************************************************************************)
(* Session state, Annotation Manager and Scope Priority Resolver           *)
(***************************************************************************)
ScopePriorityNarrowFirst ==
  << "message_with_bodies", "messages_under_summary", "summary_with_messages",
     "summary_pairs", "all_summaries", "document_wide" >>

\* scopePriority of showHighestPriorityComments (EvaluationScope values)
ScopePriority ==
  << "document_wide", "all_summaries", "summary_pairs",
     "summary_with_messages", "messages_under_summary", "message_with_bodies" >>

Scopes == {ScopePriority[k] : k \in 1..Len(ScopePriority)}

\* document.title of the task pane page, as code units
DocumentTitle ==
  << "U30B9", "U30C8", "U30FC", "U30EA", "U30FC", "U30C1", "U30A7", "U30C3",
     "U30AB", "U30FC" >>

NoResponse == [null |-> TRUE]
NoScore == [shown |-> FALSE, value |-> 0, tier |-> "initial"]

HasIssuesAny(cr) == TRUE

HasIssues(cr) == cr.has_issues

ResultHasIssuesAny(r) == TRUE

\* result.criteria_results.some(cr => cr.has_issues)
ResultHasIssues(r) == \E k \in 1..Len(r.criteria_results) : r.criteria_results[k].has_issues

IsMatchingScopeAny(r, scope) == TRUE

\* resultScope === scope || resultScope === scope.toString() || ...
IsMatchingScope(r, scope) == r.scope = scope

\* the comment body: the scope name line, then one entry per failing criterion
CommentText(scope, issuesCriteria) ==
  [scope |-> scope,
   items |-> [k \in 1..Len(issuesCriteria) |->
                [criteria |-> issuesCriteria[k].criteria,
                 issues |-> issuesCriteria[k].issues]]]

\* commentRanges[key] = range
PutRange(cr, key, para) == {e \in cr : e[1] # key} \cup {<<key, para>>}

RemoveNothing(cs) == cs

\* removeAllComments: the comments of every range body.search("*") returns
\* are deleted; the search is taken to cover the whole body
removeAllComments(cs) == <<>>

\* an editor that never refuses a comment
addCommentSafelyAlways(cs, range, text) ==
  [ok |-> TRUE,
   comments |-> Append(cs, [range |-> range.para, via |-> range.tier, text |-> text])]

\* addCommentSafely: range.insertComment, sync, false when the editor throws
\* a comment keeps the paragraph of its range and how the range was obtained
addCommentSafely(cs, range, text) ==
  IF range.para \in unattachable THEN [ok |-> FALSE, comments |-> cs]
  ELSE [ok |-> TRUE,
        comments |-> Append(cs, [range |-> range.para, via |-> range.tier, text |-> text])]

\* a miss that ends the pass
AnnotateResultMissFatal(a, result, scope) ==
  LET issuesCriteria == SelectSeq(result.criteria_results, HasIssues)
      key == <<result.scope, issuesCriteria[1].criteria>>
      special == scope = "all_summaries" /\ result.target_text = DocumentTitle
      range == IF special THEN ParaRange(1, "title")
               ELSE findTextInDocument(result.target_text, paragraphs)
  IN IF range.para = 0
     THEN [a EXCEPT !.logged = @ \cup {"not_found"}, !.threw = TRUE]
     ELSE LET added == addCommentSafely(a.comments, range,
                                        CommentText(scope, issuesCriteria))
          IN IF added.ok /\ Len(issuesCriteria) = 0
             THEN [a EXCEPT !.highlight = @ \cup {range.para},
                            !.comments = added.comments,
                            !.logged = @ \cup {"pass_error"},
                            !.threw = TRUE]
             ELSE [a EXCEPT !.highlight = @ \cup {range.para},
                            !.comments = added.comments,
                            !.commentRanges = IF added.ok THEN PutRange(@, key, range.para)
                                              ELSE @,
                            !.logged = IF added.ok THEN @ ELSE @ \cup {"comment_error"}]

\* one iteration of the loop over the findings to annotate; a is the record
\* [comments, highlight, commentRanges, logged, threw]; issuesCriteria[0].criteria
\* of an empty issuesCriteria is a TypeError, which the catch of the pass logs
AnnotateResult(a, result, scope) ==
  LET issuesCriteria == SelectSeq(result.criteria_results, HasIssues)
      key == <<result.scope, issuesCriteria[1].criteria>>
      special == scope = "all_summaries" /\ result.target_text = DocumentTitle
      range == IF special THEN ParaRange(1, "title")
               ELSE findTextInDocument(result.target_text, paragraphs)
  IN IF range.para = 0
     THEN [a EXCEPT !.logged = @ \cup {"not_found"}]
     ELSE LET added == addCommentSafely(a.comments, range,
                                        CommentText(scope, issuesCriteria))
          IN IF added.ok /\ Len(issuesCriteria) = 0
             THEN [a EXCEPT !.highlight = @ \cup {range.para},
                            !.comments = added.comments,
                            !.logged = @ \cup {"pass_error"},
                            !.threw = TRUE]
             ELSE [a EXCEPT !.highlight = @ \cup {range.para},
                            !.comments = added.comments,
                            !.commentRanges = IF added.ok THEN PutRange(@, key, range.para)
                                              ELSE @,
                            !.logged = IF added.ok THEN @ ELSE @ \cup {"comment_error"}]

RECURSIVE AnnotateAll(_, _, _)
AnnotateAll(a, results, byScope) ==
  IF Len(results) = 0 \/ a.threw THEN a
  ELSE AnnotateAll(AnnotateResult(a, results[1],
                                  IF byScope = NULL THEN results[1].scope ELSE byScope),
                   Tail(results), byScope)

\* the session and annotation state a pass works on
Session ==
  [comments |-> comments, highlight |-> highlight, commentRanges |-> commentRanges,
   activeScope |-> activeScope, logged |-> {}, threw |-> FALSE]

\* showAllComments
showAllComments(st, results) ==
  IF Len(results) = 0 THEN [st EXCEPT !.logged = @ \cup {"no_results"}]
  ELSE LET cleared == [st EXCEPT !.comments = removeAllComments(@)]
           resultsWithIssues == SelectSeq(results, ResultHasIssues)
       IN IF Len(resultsWithIssues) = 0 THEN cleared
          ELSE AnnotateAll([cleared EXCEPT !.commentRanges = {}], resultsWithIssues, NULL)

\* without the early return on an empty evaluationResults
filterCommentsByScopeNoGuard(st, results, scope) ==
  LET cleared == [st EXCEPT !.comments = removeAllComments(@)]
      Selected(r) == IsMatchingScope(r, scope) /\ ResultHasIssues(r)
      filteredResults == SelectSeq(results, Selected)
  IN IF Len(filteredResults) = 0 THEN cleared
     ELSE LET done == AnnotateAll([cleared EXCEPT !.commentRanges = {}],
                                  filteredResults, scope)
          IN IF done.threw THEN done ELSE [done EXCEPT !.activeScope = scope]

\* filterCommentsByScope
filterCommentsByScope(st, results, scope) ==
  IF Len(results) = 0 THEN [st EXCEPT !.logged = @ \cup {"no_results"}]
  ELSE LET cleared == [st EXCEPT !.comments = removeAllComments(@)]
           Selected(r) == IsMatchingScope(r, scope) /\ ResultHasIssues(r)
           filteredResults == SelectSeq(results, Selected)
       IN IF Len(filteredResults) = 0 THEN cleared
          ELSE LET done == AnnotateAll([cleared EXCEPT !.commentRanges = {}],
                                       filteredResults, scope)
               IN IF done.threw THEN done ELSE [done EXCEPT !.activeScope = scope]

\* scopeHasIssues[scope] of showHighestPriorityComments
ScopeHasIssues(results, scope) ==
  \E k \in 1..Len(results) :
    IsMatchingScope(results[k], scope) /\ ResultHasIssues(results[k])

\* highestPriorityScope: the first scope of scopePriority with issues, or null
HighestPriorityScope(results) ==
  LET ng == {k \in 1..Len(ScopePriority) : ScopeHasIssues(results, ScopePriority[k])}
  IN IF ng = {} THEN NULL ELSE ScopePriority[SetMin(ng)]

\* showHighestPriorityComments
showHighestPriorityComments(st, results) ==
  IF Len(results) = 0 THEN [st EXCEPT !.logged = @ \cup {"no_results"}]
  ELSE IF HighestPriorityScope(results) # NULL
       THEN filterCommentsByScope(st, results, HighestPriorityScope(results))
       ELSE showAllComments(st, results)

(***************************************************************************)
(* Score display                                                           *)
(*                                                                         *)
(* A JSON score is [t, v]: t is "undefined", "null", "number", "numeric"   *)
(* (a string Number() converts) or "text" (a string it does not); v is the *)
(* number in tenths.                                                       *)
(***************************************************************************)
DefaultScore == 1000

\* lines 329-342 of run: the number handed to updateScore, in tenths
ScoreToShow(score) ==
  IF score.t \in {"undefined", "null"} THEN DefaultScore
  ELSE IF score.t = "text" THEN DefaultScore
  ELSE score.v

RoundTrunc(v) == v \div 10

\* Math.round of a number given in tenths
Round(v) == (v + 5) \div 10

ScoreTier(n) ==
  IF n >= 90 THEN "excellent"
  ELSE IF n >= 70 THEN "good"
  ELSE IF n >= 50 THEN "fair"
  ELSE IF n >= 30 THEN "poor"
  ELSE "bad"

\* updateScore
updateScore(v) ==
  [shown |-> TRUE, value |-> Round(v), tier |-> ScoreTier(Round(v))]

(***************************************************************************)
(* Listeners and the listener invocations in flight                        *)
(*                                                                         *)
(* listeners.scope is the number of click listeners on each .scope-button, *)
(* listeners.showAll the number on #show-all.  A task is one invocation of *)
(* a listener, suspended at an await: pc names the await it is at.         *)
(***************************************************************************)
\* Office.onReady: setupScopeButtons() once, and one more listener on #show-all
InitialListeners == [scope |-> 1, showAll |-> 2]

\* setupScopeButtons: addEventListener on every .scope-button and on #show-all
setupScopeButtons(l) == [scope |-> l.scope + 1, showAll |-> l.showAll + 1]

IdleTask ==
  [pc |-> "idle", kind |-> NULL, scope |-> NULL, todo |-> <<>>, fromRun |-> FALSE]

NoTasks == [t \in 1..MaxTasks |-> IdleTask]

(***************************************************************************)
(* Handlers                                                                *)
(***************************************************************************)
HasStructureAlways(bp) == TRUE

\* bulletPointsData && bulletPointsData.summaries.length > 0
HasStructure(bp) == bp # NullRequest /\ Len(bp.summaries) > 0

NoPost == [posted |-> FALSE]
Posted(bp) == [posted |-> TRUE, body |-> bp]

OpOf(name, arg) ==
  [name |-> name, arg |-> arg, again |-> op.name = name /\ op.arg = arg]

\* writes the record a pass produced back to the variables
Commit(st) ==
  /\ comments' = st.comments
  /\ highlight' = st.highlight
  /\ UNCHANGED redText
  /\ commentRanges' = st.commentRanges
  /\ activeScope' = st.activeScope

FailureKinds == {"network_error", "http_error", "bad_json"}

\* run() from the return of buildBulletPointsData on, given the answer o of
\* the gateway
Reply(bp, o) ==
     /\ ret' = bp
     /\ IF ~HasStructure(bp)
        THEN /\ sent' = NoPost
             /\ logged' = {"no_bullets"}
             /\ op' = OpOf("run", NULL)
             /\ UNCHANGED <<annVars, stateVars, listeners>>
        ELSE /\ sent' = Posted(bp)
             /\ op' = OpOf("run", NULL)
             /\ IF o.kind \in FailureKinds
                THEN /\ logged' = {"api_error"}
                     /\ UNCHANGED <<annVars, stateVars, listeners>>
                ELSE /\ lastCheckResults' = o.body
                     /\ scoreUI' = updateScore(ScoreToShow(o.body.score))
                     /\ IF ~o.body.hasResults
                        THEN /\ logged' = {"api_error"}
                             /\ UNCHANGED <<annVars, evaluationResults,
                                            activeScope, commentRanges, listeners>>
                        ELSE /\ evaluationResults' = o.body.results
                             /\ IF o.body.status = "success"
                                THEN LET st == showHighestPriorityComments(
                                                 [Session EXCEPT !.comments = removeAllComments(@)],
                                                 o.body.results)
                                     IN /\ Commit(st)
                                        /\ logged' = st.logged
                                        /\ listeners' = setupScopeButtons(listeners)
                                ELSE /\ logged' = {}
                                     /\ UNCHANGED <<annVars, activeScope, commentRanges,
                                                    listeners>>
     /\ UNCHANGED <<paragraphs, unattachable, bld, prevRet, calls, locVars, tasks>>

\* run(), the click handler of #run, with the answer drawn from outcomes
Run(outcomes) ==
  LET bp == buildBulletPointsData(paragraphs, TitleText(paragraphs))
  IN /\ listeners.scope < MaxListeners
     /\ \E o \in outcomes : Reply(bp, o)

\* one run of the click listener of a .scope-button
ScopePass(scope) ==
  LET st == filterCommentsByScope(Session, evaluationResults, scope)
  IN /\ Commit(st)
     /\ logged' = st.logged
     /\ sent' = NoPost
     /\ op' = OpOf("scope", scope)
     /\ UNCHANGED <<paragraphs, unattachable, evaluationResults, lastCheckResults,
                    scoreUI, buildVars, locVars, uiVars>>

\* one run of the click listener of #show-all
ShowAllPass ==
  LET st == showAllComments(Session, evaluationResults)
  IN /\ Commit(st)
     /\ logged' = st.logged
     /\ sent' = NoPost
     /\ op' = OpOf("show_all", NULL)
     /\ UNCHANGED <<paragraphs, unattachable, evaluationResults, lastCheckResults,
                    scoreUI, buildVars, locVars, uiVars>>

\* showHighestPriorityComments applied to the stored findings
ShowHighest ==
  LET st == showHighestPriorityComments(Session, evaluationResults)
  IN /\ Commit(st)
     /\ logged' = st.logged
     /\ sent' = NoPost
     /\ op' = OpOf("highest", HighestPriorityScope(evaluationResults))
     /\ UNCHANGED <<paragraphs, unattachable, evaluationResults, lastCheckResults,
                    scoreUI, buildVars, locVars, uiVars>>

(***************************************************************************)
(* Initial values of the variables a specification does not exercise       *)
(***************************************************************************)
BuildIdle == bld = IdleLocals /\ ret = NullRequest /\ prevRet = NullRequest /\ calls = 0
LocIdle == target = <<>> /\ found = Pending /\ foundTp = Pending

\* the module state after load: no findings, nothing annotated
SessIdle ==
  /\ comments = <<>>
  /\ highlight = {}
  /\ redText = {}
  /\ evaluationResults = <<>>
  /\ activeScope = NULL
  /\ commentRanges = {}
  /\ lastCheckResults = NoResponse
  /\ scoreUI = NoScore
  /\ sent = NoPost
  /\ logged = {}
  /\ op = [name |-> "load", arg |-> NULL, again |-> FALSE]
  /\ tasks = NoTasks
  /\ listeners = InitialListeners

(***************************************************************************)
(* Findings and gateway responses of the session specifications            *)
(***************************************************************************)
Criterion(c, bad) ==
  [criteria |-> c, has_issues |-> bad, issues |-> IF bad THEN "issue" ELSE "no_issue"]

Finding(scope, text, crs) ==
  [target_text |-> text, scope |-> scope, criteria_results |-> crs]

\* the criterion the evaluator checks in a scope, and the text it reports
CriterionOf(scope) ==
  CASE scope = "document_wide" -> "rhetorical_expression"
    [] scope = "all_summaries" -> "scqa_presence"
    [] scope = "summary_pairs" -> "conjunction_validity"
    [] scope = "summary_with_messages" -> "sequential_development"
    [] scope = "messages_under_summary" -> "conjunction_appropriateness"
    [] OTHER -> "message_body_consistency"

TargetOf(scope) ==
  CASE scope = "document_wide" -> <<"C">>
    [] scope = "all_summaries" -> <<"A">>
    [] scope = "summary_pairs" -> <<"A">>
    [] scope = "summary_with_messages" -> <<"B">>
    [] scope = "messages_under_summary" -> <<"Z">>
    [] OTHER -> <<"C">>

Flagged(scope) == Finding(scope, TargetOf(scope), <<Criterion(CriterionOf(scope), TRUE)>>)
Clean(scope) == Finding(scope, TargetOf(scope), <<Criterion(CriterionOf(scope), FALSE)>>)

TitleFinding ==
  Finding("all_summaries", DocumentTitle, <<Criterion("scqa_presence", TRUE)>>)

\* a finding about the title of the Word document (the first paragraph)
WordTitleFinding ==
  Finding("all_summaries", <<"T">>, <<Criterion("scqa_presence", TRUE)>>)

MixedFinding ==
  Finding("summary_pairs", <<"B">>,
          << Criterion("conjunction_validity", FALSE),
             Criterion("inappropriate_conjunctions", TRUE),
             Criterion("logical_consistency_with_previous", TRUE) >>)

FindingSet ==
  {Flagged(sc) : sc \in Scopes} \cup {Clean(sc) : sc \in Scopes}
    \cup {TitleFinding, WordTitleFinding, MixedFinding}

ResultLists == UNION { [1..n -> FindingSet] : n \in 0..MaxResults }

DocOutline ==
  << Para(<<"T">>, 0, 0), Para(<<"U2022", " ", "A">>, 0, 0),
     Para(<<"U2022", " ", "B">>, 24, 0), Para(<<"U2022", " ", "C">>, 48, 0) >>

\* no paragraph is a bullet: zero bullet candidates
DocPlain ==
  << Para(<<"T">>, 0, 0), Para(<<"A">>, 0, 0), Para(<<"B">>, 0, 0), Para(<<>>, 0, 0) >>

\* bullet candidates, all empty after cleanup: an empty hierarchy
DocGlyphs ==
  << Para(<<"T">>, 0, 0), Para(<<"U2022">>, 0, 0), Para(<<"-", " ">>, 24, 0),
     Para(<<>>, 0, 0) >>

SessionDocs == {DocOutline, DocPlain, DocGlyphs}

Unattachables == {{}, {3}}

Score(t, v) == [t |-> t, v |-> v]

ScoreValues ==
  { Score("undefined", 0), Score("null", 0), Score("text", 0), Score("numeric", 850) }
    \cup { Score("number", v) : v \in {1000, 900, 895, 894, 700, 694, 500, 300, 294, 0} }

Body(status, score, hasResults, results) ==
  [status |-> status, score |-> score, hasResults |-> hasResults, results |-> results]

SessionResults ==
  { <<>>,
    << Flagged("summary_pairs"), Flagged("message_with_bodies"), Clean("document_wide") >> }

\* what the gateway can answer: a failure, or a parsed body with or without
\* a results array
OutcomesOf(scores, resultLists) ==
  { [kind |-> k] : k \in FailureKinds }
    \cup { [kind |-> "json", body |-> Body(st, sc, TRUE, rs)] :
             st \in {"success", "error"}, sc \in scores, rs \in resultLists }
    \cup { [kind |-> "json", body |-> Body(st, sc, FALSE, <<>>)] :
             st \in {"success", "error"}, sc \in scores }

SessionScores == {Score("number", 294)}

Outcomes == OutcomesOf(SessionScores, SessionResults)

ScoreOutcomes == OutcomesOf(ScoreValues, {<<>>, << Clean("document_wide") >>})

\* the answers and the buttons of the event-loop specification
AsyncResults == << Flagged("summary_pairs"), Flagged("message_with_bodies") >>

AsyncOutcomes ==
  { [kind |-> "http_error"],
    [kind |-> "json", body |-> Body("success", Score("number", 294), TRUE, AsyncResults)],
    [kind |-> "json", body |-> Body("error", Score("number", 294), TRUE, AsyncResults)] }

AsyncScopes == {"summary_pairs", "message_with_bodies"}

(***************************************************************************)
(* Specification of the session: checks, passes and edits of the document  *)
(***************************************************************************)
InitSession ==
  /\ paragraphs \in SessionDocs
  /\ unattachable = {}
  /\ BuildIdle
  /\ LocIdle
  /\ SessIdle

\* the user rewrites the paragraphs; annotations stay on their paragraphs
UserEdit ==
  /\ paragraphs' \in SessionDocs \ {paragraphs}
  /\ op' = OpOf("edit", NULL)
  /\ logged' = {}
  /\ sent' = NoPost
  /\ UNCHANGED <<unattachable, annVars, stateVars, buildVars, locVars, uiVars>>

NextSession ==
  \/ Run(Outcomes)
  \/ \E sc \in Scopes : ScopePass(sc)
  \/ ShowAllPass
  \/ UserEdit

SpecSession == InitSession /\ [][NextSession]_vars

(***************************************************************************)
(* Specification of the checks alone: run() on answers whose findings all  *)
(* pass, some fail, or are missing                                         *)
(***************************************************************************)
CheckResults ==
  { <<>>,
    << Clean("summary_pairs"), Clean("document_wide") >>,
    << Clean("document_wide"), Flagged("summary_with_messages"), Flagged("summary_pairs") >> }

CheckOutcomes == OutcomesOf({Score("number", 850)}, CheckResults)

NextCheck ==
  \/ Run(CheckOutcomes)
  \/ UserEdit

SpecCheck == InitSession /\ [][NextCheck]_vars

(***************************************************************************)
(* Specification of the score display: checks with every score value      *)
(***************************************************************************)
NextScore ==
  \/ Run(ScoreOutcomes)
  \/ UserEdit

SpecScore == InitSession /\ [][NextScore]_vars

(***************************************************************************)
(* Specification of the resolver and the passes on stored findings: the    *)
(* state after a check whose response was not annotated (status other than *)
(* "success"), for every list of findings                                  *)
(***************************************************************************)
InitResolve ==
  /\ paragraphs = DocOutline
  /\ unattachable \in Unattachables
  /\ BuildIdle
  /\ LocIdle
  /\ comments = <<>>
  /\ highlight = {}
  /\ redText = {}
  /\ evaluationResults \in ResultLists
  /\ activeScope = NULL
  /\ commentRanges = {}
  /\ lastCheckResults = Body("error", Score("null", 0), TRUE, evaluationResults)
  /\ scoreUI = updateScore(ScoreToShow(Score("null", 0)))
  /\ sent = NoPost
  /\ logged = {}
  /\ op = [name |-> "run", arg |-> "error", again |-> FALSE]
  /\ tasks = NoTasks
  /\ listeners = InitialListeners

NextResolve ==
  \/ ShowHighest
  \/ \E sc \in Scopes : ScopePass(sc)
  \/ ShowAllPass

SpecResolve == InitResolve /\ [][NextResolve]_vars

(***************************************************************************)
(* Specification of the listeners as the event loop runs them: a click     *)
(* invokes every listener registered on the button, each invocation runs   *)
(* up to its next await and the suspended invocations resume in any order  *)
(***************************************************************************)
FreeSlots == {t \in 1..MaxTasks : tasks[t].pc = "idle"}

InFlight == {t \in 1..MaxTasks : tasks[t].pc # "idle"}

\* the tasks after n invocations of one listener, each suspended as task
RECURSIVE Invoke(_, _, _)
Invoke(ts, n, task) ==
  IF n = 0 THEN ts
  ELSE LET free == {t \in 1..MaxTasks : ts[t].pc = "idle"}
       IN Invoke([ts EXCEPT ![SetMin(free)] = task], n - 1, task)

PassTask(kind, scope, fromRun) ==
  [pc |-> "clear", kind |-> kind, scope |-> scope, todo |-> <<>>, fromRun |-> fromRun]

\* click on a .scope-button: every listener calls filterCommentsByScope, which
\* returns at once without findings and otherwise suspends in removeAllComments
ClickScope(scope) ==
  /\ Cardinality(FreeSlots) >= listeners.scope
  /\ UNCHANGED <<op, sent>>
  /\ IF Len(evaluationResults) = 0
     THEN logged' = {"no_results"} /\ UNCHANGED tasks
     ELSE logged' = {} /\ tasks' = Invoke(tasks, listeners.scope, PassTask("scope", scope, FALSE))
  /\ UNCHANGED <<paragraphs, unattachable, annVars, stateVars, buildVars, locVars,
                 listeners>>

\* click on #show-all: every listener calls showAllComments
ClickShowAll ==
  /\ Cardinality(FreeSlots) >= listeners.showAll
  /\ UNCHANGED <<op, sent>>
  /\ IF Len(evaluationResults) = 0
     THEN logged' = {"no_results"} /\ UNCHANGED tasks
     ELSE logged' = {} /\ tasks' = Invoke(tasks, listeners.showAll,
                                          PassTask("show_all", NULL, FALSE))
  /\ UNCHANGED <<paragraphs, unattachable, annVars, stateVars, buildVars, locVars,
                 listeners>>

\* click on #run: run() suspends at its first context.sync
ClickRun ==
  /\ listeners.scope < MaxListeners
  /\ FreeSlots # {}
  /\ UNCHANGED <<op, sent>>
  /\ logged' = {}
  /\ tasks' = Invoke(tasks, 1, [IdleTask EXCEPT !.pc = "build", !.kind = "run"])
  /\ UNCHANGED <<paragraphs, unattachable, annVars, stateVars, buildVars, locVars,
                 listeners>>

Finish(t) == tasks' = [tasks EXCEPT ![t] = IdleTask]

\* run() from buildBulletPointsData to the fetch
RunBuild(t) ==
  /\ tasks[t].pc = "build"
  /\ LET bp == buildBulletPointsData(paragraphs, TitleText(paragraphs))
     IN /\ ret' = bp
        /\ IF HasStructure(bp)
           THEN /\ sent' = Posted(bp)
                /\ logged' = {}
                /\ tasks' = [tasks EXCEPT ![t].pc = "fetch"]
           ELSE /\ sent' = NoPost
                /\ logged' = {"no_bullets"}
                /\ Finish(t)
  /\ UNCHANGED <<paragraphs, unattachable, annVars, stateVars, bld, prevRet, calls,
                 locVars, op, listeners>>

\* run() from the answer of the gateway to the sync before removeAllComments
RunReply(t, o) ==
  /\ tasks[t].pc = "fetch"
  /\ IF o.kind \in FailureKinds
     THEN /\ logged' = {"api_error"}
          /\ Finish(t)
          /\ UNCHANGED stateVars
     ELSE /\ lastCheckResults' = o.body
          /\ scoreUI' = updateScore(ScoreToShow(o.body.score))
          /\ IF ~o.body.hasResults
             THEN /\ logged' = {"api_error"}
                  /\ Finish(t)
                  /\ UNCHANGED <<evaluationResults, activeScope, commentRanges>>
             ELSE /\ evaluationResults' = o.body.results
                  /\ logged' = {}
                  /\ UNCHANGED <<activeScope, commentRanges>>
                  /\ IF o.body.status = "success"
                     THEN tasks' = [tasks EXCEPT ![t].pc = "run_clear"]
                     ELSE Finish(t)
  /\ UNCHANGED <<paragraphs, unattachable, annVars, buildVars, locVars, sent, op,
                 listeners>>

\* run(): removeAllComments, then showHighestPriorityComments up to the await
\* of the pass it starts
RunClear(t) ==
  /\ tasks[t].pc = "run_clear"
  /\ comments' = removeAllComments(comments)
  /\ IF Len(evaluationResults) = 0
     THEN /\ logged' = {"no_results"}
          /\ listeners' = setupScopeButtons(listeners)
          /\ Finish(t)
     ELSE /\ logged' = {}
          /\ UNCHANGED listeners
          /\ tasks' = [tasks EXCEPT ![t] =
                         IF HighestPriorityScope(evaluationResults) # NULL
                         THEN PassTask("scope", HighestPriorityScope(evaluationResults), TRUE)
                         ELSE PassTask("show_all", NULL, TRUE)]
  /\ UNCHANGED <<paragraphs, unattachable, highlight, redText, stateVars, buildVars,
                 locVars, sent, op>>

\* a pass: removeAllComments, up to the sync that loads the paragraphs
PassClear(t) ==
  /\ tasks[t].pc = "clear"
  /\ comments' = removeAllComments(comments)
  /\ tasks' = [tasks EXCEPT ![t].pc = "load"]
  /\ UNCHANGED <<paragraphs, unattachable, highlight, redText, stateVars, buildVars,
                 locVars, sent, logged, op, listeners>>

\* the findings a suspended pass annotates, read when it resumes
Selection(task) ==
  LET Selected(r) == IsMatchingScope(r, task.scope) /\ ResultHasIssues(r)
  IN IF task.kind = "scope" THEN SelectSeq(evaluationResults, Selected)
     ELSE SelectSeq(evaluationResults, ResultHasIssues)

\* the end of a pass; run() then calls setupScopeButtons
PassEnd(t) ==
  /\ Finish(t)
  /\ listeners' = IF tasks[t].fromRun THEN setupScopeButtons(listeners) ELSE listeners

\* a pass: the filter, the early return, commentRanges = {}
PassLoad(t) ==
  /\ tasks[t].pc = "load"
  /\ IF Len(Selection(tasks[t])) = 0
     THEN /\ PassEnd(t)
          /\ UNCHANGED commentRanges
     ELSE /\ commentRanges' = {}
          /\ tasks' = [tasks EXCEPT ![t].pc = "item", ![t].todo = Selection(tasks[t])]
          /\ UNCHANGED listeners
  /\ UNCHANGED <<paragraphs, unattachable, annVars, evaluationResults, activeScope,
                 lastCheckResults, scoreUI, buildVars, locVars, sent, logged, op>>

\* a pass: one iteration of the loop over the findings
PassItem(t) ==
  /\ tasks[t].pc = "item"
  /\ LET result == Head(tasks[t].todo)
         a == AnnotateResult(Session, result,
                             IF tasks[t].kind = "scope" THEN tasks[t].scope
                             ELSE result.scope)
     IN /\ comments' = a.comments
        /\ highlight' = a.highlight
        /\ commentRanges' = a.commentRanges
        /\ logged' = a.logged
        /\ IF a.threw
           THEN PassEnd(t)
           ELSE /\ tasks' = [tasks EXCEPT
                               ![t].todo = Tail(@),
                               ![t].pc = IF Len(tasks[t].todo) = 1 THEN "final" ELSE "item"]
                /\ UNCHANGED listeners
  /\ UNCHANGED <<paragraphs, unattachable, redText, evaluationResults, activeScope,
                 lastCheckResults, scoreUI, buildVars, locVars, sent, op>>

\* a pass: the last sync, then activeScope = scope in filterCommentsByScope
PassFinal(t) ==
  /\ tasks[t].pc = "final"
  /\ activeScope' = IF tasks[t].kind = "scope" THEN tasks[t].scope ELSE activeScope
  /\ PassEnd(t)
  /\ UNCHANGED <<paragraphs, unattachable, annVars, evaluationResults, commentRanges,
                 lastCheckResults, scoreUI, buildVars, locVars, sent, logged, op>>

\* one suspended invocation resumes and runs to its next await
Resume(t) ==
  \/ RunBuild(t)
  \/ \E o \in AsyncOutcomes : RunReply(t, o)
  \/ RunClear(t)
  \/ PassClear(t)
  \/ PassLoad(t)
  \/ PassItem(t)
  \/ PassFinal(t)

InitAsync ==
  /\ paragraphs = DocOutline
  /\ unattachable = {}
  /\ BuildIdle
  /\ LocIdle
  /\ SessIdle

NextAsync ==
  \/ ClickRun
  \/ \E sc \in AsyncScopes : ClickScope(sc)
  \/ ClickShowAll
  \/ \E t \in 1..MaxTasks : Resume(t)

SpecAsync == InitAsync /\ [][NextAsync]_vars

\* the event loop resumes every suspended invocation
SpecAsyncFair == SpecAsync /\ \A t \in 1..MaxTasks : WF_vars(Resume(t))

(***************************************************************************)
(* run() of frontend/src/taskpane/taskpane.ts: the task pane without       *)
(* session state, which annotates every finding in the click handler       *)
(***************************************************************************)
\* titleParagraph: the first non-empty paragraph that is not a bullet, 0 if none
TitleParagraphTp(paras) ==
  FirstPara({k \in 1..Len(paras) : Trim(paras[k].text) # <<>> /\ ~IsBulletPoint(paras[k])})

RECURSIVE ExtractFromTp(_, _)
ExtractFromTp(paras, k) ==
  IF k > Len(paras) THEN <<>>
  ELSE LET p == paras[k]
           rest == ExtractFromTp(paras, k + 1)
       IN IF Trim(p.text) = <<>> THEN rest
          ELSE IF IsBulletPoint(p)
               THEN <<[text |-> CleanText(p), level |-> LevelOf(p), paragraph |-> k]>> \o rest
               ELSE rest

\* bulletPointsData as run() posts it; title <<>> stands for no title field
buildRequestTp(paras) ==
  LET t == TitleParagraphTp(paras)
  IN Tree(BuildLoop(NewLocals(ExtractFromTp(paras, 1))),
          IF t = 0 THEN <<>> ELSE Trim(paras[t].text))

\* addCommentSafely of taskpane.ts
addCommentSafelyTp(cs, range, text) ==
  IF range.para \in unattachable THEN [ok |-> FALSE, comments |-> cs]
  ELSE [ok |-> TRUE,
        comments |-> Append(cs, [range |-> range.para, via |-> range.tier, text |-> text])]

\* one iteration of the highlight loop
HighlightTp(h, result, titlePara) ==
  IF ~ResultHasIssues(result) THEN h
  ELSE IF result.scope = "all_summaries" /\ titlePara # 0 THEN h \cup {titlePara}
  ELSE LET matchedRange == findTextInDocumentTp(result.target_text, paragraphs)
       IN IF matchedRange.para # 0 THEN h \cup {matchedRange.para} ELSE h

RECURSIVE HighlightAllTp(_, _, _)
HighlightAllTp(h, results, titlePara) ==
  IF Len(results) = 0 THEN h
  ELSE HighlightAllTp(HighlightTp(h, results[1], titlePara), Tail(results), titlePara)

\* one iteration of the comment loop; a is [comments, redText, logged]
CommentTp(a, result) ==
  IF ~ResultHasIssues(result) THEN a
  ELSE LET matchedRange == findTextInDocumentTp(result.target_text, paragraphs)
           issuesCriteria == SelectSeq(result.criteria_results, HasIssues)
           added == addCommentSafelyTp(a.comments, matchedRange,
                                       CommentText(result.scope, issuesCriteria))
       IN IF matchedRange.para = 0 THEN a
          ELSE IF added.ok THEN [a EXCEPT !.comments = added.comments]
          ELSE [a EXCEPT !.redText = @ \cup {matchedRange.para},
                         !.logged = @ \cup {"comment_error"}]

RECURSIVE CommentAllTp(_, _)
CommentAllTp(a, results) ==
  IF Len(results) = 0 THEN a
  ELSE CommentAllTp(CommentTp(a, results[1]), Tail(results))

\* run() of taskpane.ts, the click handler of #run
RunTp(outcomes) ==
  LET bp == buildRequestTp(paragraphs)
  IN /\ calls < MaxCalls
     /\ calls' = calls + 1
     /\ prevRet' = ret
     /\ ret' = bp
     /\ op' = OpOf("run_tp", NULL)
     /\ \E o \in outcomes :
          IF Len(bp.summaries) = 0
          THEN /\ sent' = NoPost
               /\ logged' = {"no_bullets"}
               /\ UNCHANGED annVars
          ELSE /\ sent' = Posted(bp)
               /\ IF o.kind \in FailureKinds \/ ~o.body.hasResults
                  THEN /\ logged' = {"api_error"}
                       /\ UNCHANGED annVars
                  ELSE IF o.body.status = "success"
                       THEN LET a == CommentAllTp([comments |-> comments, redText |-> redText,
                                                   logged |-> {}], o.body.results)
                            IN /\ highlight' = HighlightAllTp(highlight, o.body.results,
                                                              TitleParagraphTp(paragraphs))
                               /\ comments' = a.comments
                               /\ redText' = a.redText
                               /\ logged' = a.logged
                       ELSE /\ logged' = {}
                            /\ UNCHANGED annVars
     /\ UNCHANGED <<paragraphs, unattachable, stateVars, bld, locVars, uiVars>>

\* documents and findings whose texts the locator of taskpane.ts accepts
DocWords ==
  << Para(<<"T">>, 0, 0), Para(<<"U2022", " ", "a", "b", "c">>, 0, 0),
     Para(<<"U2022", " ", "x", "y", "z">>, 24, 0), Para(<<"U2022", " ", "C">>, 48, 0) >>

\* every paragraph is a bullet: no title paragraph
DocNoTitle ==
  << Para(<<"U2022", " ", "a", "b", "c">>, 0, 0), Para(<<"U2022", " ", "x", "y", "z">>, 24, 0) >>

TpDocs == {DocWords, DocNoTitle, DocPlain}

TpFinding(scope, text, bad) ==
  Finding(scope, text, <<Criterion(CriterionOf(scope), bad)>>)

TpResults ==
  { <<>>,
    << TpFinding("summary_pairs", <<"a", "b", "c">>, TRUE),
       TpFinding("summary_with_messages", <<"x", "y", "z">>, TRUE) >>,
    << TpFinding("all_summaries", <<"x", "y", "z">>, TRUE),
       TpFinding("document_wide", <<"a", "b", "c">>, FALSE),
       TpFinding("message_with_bodies", <<"C">>, TRUE) >> }

TpOutcomes == OutcomesOf({Score("number", 850)}, TpResults)

InitTaskpane ==
  /\ paragraphs \in TpDocs
  /\ unattachable \in Unattachables
  /\ BuildIdle
  /\ LocIdle
  /\ SessIdle

TpEdit ==
  /\ paragraphs' \in TpDocs \ {paragraphs}
  /\ op' = OpOf("edit", NULL)
  /\ logged' = {}
  /\ sent' = NoPost
  /\ UNCHANGED <<unattachable, annVars, stateVars, buildVars, locVars, uiVars>>

NextTaskpane == RunTp(TpOutcomes) \/ TpEdit

SpecTaskpane == InitTaskpane /\ [][NextTaskpane]_vars

(***************************************************************************)
(* Specification of the Text Locator: one search of one document           *)
(***************************************************************************)
LongA(n) == [k \in 1..n |-> "a"]

LocTexts ==
  { <<"x", "a", "b", "c">>,                       \* contains abc
    <<"a", "b", "c">>,                            \* is abc
    <<" ", "a", "b", " ">>,                       \* is ab once trimmed
    <<"w", "o", "r", "d", "s", " ", "q">>,        \* has the word "words"
    <<"0", "1", "2", "3", "4", "5", "6", "7", "8", "9", "!">>,
    LongA(MaxSearchLength) }

LocTargets ==
  { <<>>,
    <<" ">>,
    <<"a", "b">>,
    <<"a", "b", "c">>,
    <<"n", "o", " ", "w", "o", "r", "d", "s">>,
    <<"0", "1", "2", "3", "4", "5", "6", "7", "8", "9", "?">>,
    <<"z", "z", "z">>,
    <<"z", "z", "z", " ", "a", "b", "c">>,    \* second token is in a paragraph
    LongA(MaxSearchLength + 1) }

LocDocuments ==
  UNION { [1..n -> {Para(t, 0, 0) : t \in LocTexts}] : n \in 1..MaxLocParas }

InitLocate ==
  /\ paragraphs \in LocDocuments
  /\ target \in LocTargets
  /\ found = Pending
  /\ foundTp = Pending
  /\ BuildIdle
  /\ unattachable = {}
  /\ SessIdle

Locate ==
  /\ found' = findTextInDocument(target, paragraphs)
  /\ UNCHANGED <<paragraphs, buildVars, target, foundTp, sessVars>>

LocateTp ==
  /\ foundTp' = findTextInDocumentTp(target, paragraphs)
  /\ UNCHANGED <<paragraphs, buildVars, target, found, sessVars>>

NextLocate == Locate \/ LocateTp

SpecLocate == InitLocate /\ [][NextLocate]_vars

(***************************************************************************)
(* Specification of the builder: one call at a time on a fixed snapshot    *)
(***************************************************************************)
InitBuild ==
  /\ paragraphs \in Documents
  /\ BuildIdle
  /\ LocIdle
  /\ unattachable = {}
  /\ SessIdle

\* entry of buildBulletPointsData up to the early return
BuildStart ==
  /\ bld.pc = "idle"
  /\ calls < MaxCalls
  /\ LET bps == ExtractBullets(paragraphs, TitleText(paragraphs))
     IN IF Len(bps) = 0
        THEN /\ bld' = IdleLocals
             /\ prevRet' = ret
             /\ ret' = NullRequest
             /\ calls' = calls + 1
        ELSE /\ bld' = NewLocals(bps)
             /\ UNCHANGED <<ret, prevRet, calls>>
  /\ UNCHANGED <<paragraphs, locVars, sessVars>>

\* one iteration of the loop over bulletPoints
BuildStep ==
  /\ bld.pc = "loop"
  /\ ~bld.threw
  /\ bld.i <= Len(bld.bulletPoints)
  /\ bld' = [ProcessBullet(bld, bld.bulletPoints[bld.i]) EXCEPT !.i = bld.i + 1]
  /\ UNCHANGED <<paragraphs, ret, prevRet, calls, locVars, sessVars>>

\* return bulletPointsData
BuildReturn ==
  /\ bld.pc = "loop"
  /\ ~bld.threw
  /\ bld.i > Len(bld.bulletPoints)
  /\ prevRet' = ret
  /\ ret' = Tree(bld, TitleText(paragraphs))
  /\ calls' = calls + 1
  /\ bld' = [bld EXCEPT !.pc = "idle"]
  /\ UNCHANGED <<paragraphs, locVars, sessVars>>

NextBuild == BuildStart \/ BuildStep \/ BuildReturn

SpecBuild == InitBuild /\ [][NextBuild]_vars

(***************************************************************************)
(* Properties of the Hierarchy Builder (SpecBuild)                         *)
(***************************************************************************)
RECURSIVE SumLen(_, _)
SumLen(f, k) == IF k = 0 THEN 0 ELSE Len(f[k].bodies) + SumLen(f, k - 1)

\* candidates 1..n of bps that the second loop does not skip
NonEmptyIdx(bps, n) == {k \in 1..n : k <= Len(bps) /\ bps[k].text # <<>>}

Processed(b) == NonEmptyIdx(b.bulletPoints, b.i - 1)

\* places <<k, j>> of the result at which message id m is stored
MessagePlaces(b, m) ==
  {pl \in (1..Len(b.summaries)) \X (1..Len(b.msgs)) :
     /\ pl[2] <= Len(b.sums[b.summaries[pl[1]]].messages)
     /\ b.sums[b.summaries[pl[1]]].messages[pl[2]] = m}

\* C1: the tree has no orphans: nothing was pushed on a null parent, every
\* Message object is stored in exactly one Summary of the result, and every
\* non-empty level-2 / level-1 candidate processed so far is a Body / Message
\* of the result.
NoOrphans ==
  bld.pc = "loop" =>
    /\ ~bld.threw
    /\ \A m \in 1..Len(bld.msgs) : Cardinality(MessagePlaces(bld, m)) = 1
    /\ \A sid \in 1..Len(bld.sums) :
         Cardinality({k \in 1..Len(bld.summaries) : bld.summaries[k] = sid}) = 1
    /\ SumLen(bld.msgs, Len(bld.msgs)) =
         Cardinality({k \in Processed(bld) : bld.bulletPoints[k].level = 2})
    /\ Cardinality({m \in 1..Len(bld.msgs) : bld.msgs[m].src # 0}) =
         Cardinality({k \in Processed(bld) : bld.bulletPoints[k].level = 1})

\* a level-2 bullet before any level-0 bullet, then a level-0 bullet directly
\* followed by a level-2 bullet, all built
NoOrphansWitness ==
  /\ bld.pc = "loop"
  /\ Len(bld.bulletPoints) = 3
  /\ bld.i = 4
  /\ bld.bulletPoints[1].level = 2
  /\ bld.bulletPoints[2].level = 0
  /\ bld.bulletPoints[3].level = 2
  /\ \A k \in 1..3 : bld.bulletPoints[k].text # <<>>
  /\ Len(bld.summaries) = 2

Kind(level) == IF level = 0 THEN "summary" ELSE IF level = 1 THEN "message" ELSE "body"

Node(kind, obj) == [kind |-> kind, content |-> obj.content, src |-> obj.src]

RECURSIVE FlatBodies(_, _)
FlatBodies(bodies, h) ==
  IF h > Len(bodies) THEN <<>>
  ELSE <<Node("body", bodies[h])>> \o FlatBodies(bodies, h + 1)

RECURSIVE FlatMessages(_, _, _)
FlatMessages(b, ids, j) ==
  IF j > Len(ids) THEN <<>>
  ELSE <<Node("message", b.msgs[ids[j]])>> \o FlatBodies(b.msgs[ids[j]].bodies, 1)
         \o FlatMessages(b, ids, j + 1)

RECURSIVE FlatSummaries(_, _)
FlatSummaries(b, k) ==
  IF k > Len(b.summaries) THEN <<>>
  ELSE <<Node("summary", b.sums[b.summaries[k]])>>
         \o FlatMessages(b, b.sums[b.summaries[k]].messages, 1)
         \o FlatSummaries(b, k + 1)

IsReal(n) == n.src # 0

\* depth-first flattening of the result without the synthesized placeholders
Flatten(b) == SelectSeq(FlatSummaries(b, 1), IsReal)

RECURSIVE CandidateNodes(_, _, _)
CandidateNodes(bps, k, n) ==
  IF k > n THEN <<>>
  ELSE (IF bps[k].text = <<>> THEN <<>>
        ELSE <<[kind |-> Kind(bps[k].level), content |-> bps[k].text, src |-> k]>>)
       \o CandidateNodes(bps, k + 1, n)

\* C2: hierarchy order is stable: the depth-first flattening of the result,
\* placeholders dropped, is the sequence of non-empty candidates processed so
\* far, in source order, none lost, duplicated or reordered.
OrderStable ==
  (bld.pc = "loop" /\ ~bld.threw) =>
    Flatten(bld) = CandidateNodes(bld.bulletPoints, 1, bld.i - 1)

\* two summaries, the first with a message and a body, all built
OrderStableWitness ==
  /\ bld.pc = "loop"
  /\ bld.i > Len(bld.bulletPoints)
  /\ Len(bld.summaries) = 2
  /\ Len(Flatten(bld)) = 3
  /\ Flatten(bld)[1].kind = "summary"
  /\ Flatten(bld)[2].kind = "body"
  /\ Flatten(bld)[3].kind = "summary"

Placeholders(seq) == Cardinality({k \in 1..Len(seq) : seq[k].src = 0})

\* C9: placeholders are synthesized exactly for a missing parent: a level-1
\* bullet with no current Summary gets one placeholder Summary, appended to the
\* result, and the Message goes under it; a level-2 bullet with no current
\* Message gets one placeholder Message (and one placeholder Summary if none
\* exists) and the Body goes under it; no other step makes a placeholder.
PlaceholderStep ==
  (bld.pc = "loop" /\ bld'.pc = "loop" /\ bld'.i = bld.i + 1) =>
    LET bp == bld.bulletPoints[bld.i]
        newS == Placeholders(bld'.sums) - Placeholders(bld.sums)
        newM == Placeholders(bld'.msgs) - Placeholders(bld.msgs)
        needS == bld.currentSummary = 0
        needM == bld.currentMessage = 0
        lastS == bld'.sums[bld'.summaries[Len(bld'.summaries)]]
        lastM == bld'.msgs[lastS.messages[Len(lastS.messages)]]
    IN IF bp.text = <<>> \/ bp.level = 0 THEN newS = 0 /\ newM = 0
       ELSE IF bp.level = 1
       THEN /\ newM = 0
            /\ newS = (IF needS THEN 1 ELSE 0)
            /\ needS => (lastS.src = 0 /\ lastS.content = Unclassified)
            /\ lastM.src = bld.i
       ELSE /\ newM = (IF needM THEN 1 ELSE 0)
            /\ newS = (IF needM /\ needS THEN 1 ELSE 0)
            /\ needM => (lastM.src = 0 /\ lastM.content = Unclassified)
            /\ (needM /\ needS) => (lastS.src = 0 /\ lastS.content = Unclassified)
            /\ lastM.bodies[Len(lastM.bodies)].src = bld.i

PlaceholderRule == [][PlaceholderStep]_vars

\* a level-2 bullet came first and got both placeholders; a later level-2
\* bullet under an existing Message got none
PlaceholderWitness ==
  /\ bld.pc = "loop"
  /\ bld.i = 3
  /\ Len(bld.bulletPoints) >= 2
  /\ bld.bulletPoints[1].level = 2
  /\ bld.bulletPoints[2].level = 2
  /\ Placeholders(bld.sums) = 1
  /\ Placeholders(bld.msgs) = 1
  /\ Len(bld.msgs) = 1
  /\ Len(bld.msgs[1].bodies) = 2

\* C10: a second call of the builder on the unchanged snapshot returns a
\* request structurally identical to the first one.
BuildIdempotent == calls = 2 => ret = prevRet

\* two calls completed and the request has a Summary with a Message
BuildIdempotentWitness ==
  /\ calls = 2
  /\ ret # NullRequest
  /\ Len(ret.summaries) >= 1
  /\ Len(ret.summaries[1].messages) >= 1

RECURSIVE Concat(_)
Concat(ss) == IF Len(ss) = 0 THEN <<>> ELSE ss[1] \o Concat(Tail(ss))

NotPlaceholder(content) == content # Unclassified

\* contents of the returned request, per kind, in document order
RetSummaries(r) == [k \in 1..Len(r.summaries) |-> r.summaries[k].content]

RetMessages(r) ==
  Concat([k \in 1..Len(r.summaries) |->
            [j \in 1..Len(r.summaries[k].messages) |->
               r.summaries[k].messages[j].content]])

RetBodies(r) ==
  Concat(Concat([k \in 1..Len(r.summaries) |->
                   [j \in 1..Len(r.summaries[k].messages) |->
                      [h \in 1..Len(r.summaries[k].messages[j].bodies) |->
                         r.summaries[k].messages[j].bodies[h].content]]]))

\* cleaned texts of the non-empty candidates of the document at one level
CandidateTexts(level) ==
  LET bps == ExtractBullets(paragraphs, TitleText(paragraphs))
      AtLevel(bp) == bp.level = level /\ bp.text # <<>>
      sel == SelectSeq(bps, AtLevel)
  IN [k \in 1..Len(sel) |-> sel[k].text]

\* C11: end to end, the paragraphs Title, level-0 bullet, level-1 bullet,
\* level-2 bullet give exactly the request with that title and one Summary
\* holding one Message holding one Body; in general the Summaries, Messages
\* and Bodies of the request that are not placeholders are the level-0,
\* level-1 and level-2 candidates, one for one.
EndToEndRequest ==
  (calls >= 1 /\ ret # NullRequest) =>
    /\ ret.title = TitleText(paragraphs)
    /\ SelectSeq(RetSummaries(ret), NotPlaceholder) = CandidateTexts(0)
    /\ SelectSeq(RetMessages(ret), NotPlaceholder) = CandidateTexts(1)
    /\ SelectSeq(RetBodies(ret), NotPlaceholder) = CandidateTexts(2)
    /\ paragraphs = DocOutline =>
         ret = [title |-> <<"T">>,
                summaries |->
                  << [content |-> <<"A">>,
                      messages |->
                        << [content |-> <<"B">>,
                            bodies |-> << [content |-> <<"C">>] >>] >>] >>]

\* the scenario document was built
EndToEndWitness ==
  /\ calls >= 1
  /\ paragraphs = DocOutline
  /\ ret # NullRequest
  /\ Len(ret.summaries) = 1
  /\ Len(ret.summaries[1].messages) = 1
  /\ Len(ret.summaries[1].messages[1].bodies) = 1

(***************************************************************************)
(* Properties of the Text Locator (SpecLocate)                             *)
(***************************************************************************)
\* paragraphs whose trimmed text is the target text
ExactParas == {k \in 1..Len(paragraphs) : Trim(paragraphs[k].text) = target}

\* C7: tier ordering: when the target text equals some paragraph's trimmed
\* text, the range returned is the first exactly-matching paragraph, even if
\* an earlier paragraph merely contains the target as a substring.
ExactMatchWins ==
  (found.tier # "pending" /\ ExactParas # {}) => found.para = SetMin(ExactParas)

(***************************************************************************)
(* Properties of the event loop (SpecAsync)                                *)
(***************************************************************************)
\* C12: no two passes overlap: while one check or annotation pass is between
\* its start and its last sync, no other pass is in flight.
NoOverlap == Cardinality(InFlight) <= 1

(***************************************************************************)
(* Properties of the annotations                                           *)
(***************************************************************************)
\* C13: at most one live comment per (target range, finding) pair: no two
\* comments of the document lie on the same range with the text of the same
\* finding.
OneCommentPerFinding ==
  \A i \in 1..Len(comments) : \A j \in 1..Len(comments) :
    (comments[i].range = comments[j].range /\ comments[i].text = comments[j].text)
      => i = j

\* the paragraph a pass for scope annotates for finding r, 0 if it finds none
TargetPara(r, scope) ==
  IF scope = "all_summaries" /\ r.target_text = DocumentTitle THEN 1
  ELSE findTextInDocument(r.target_text, paragraphs).para

\* the paragraphs a pass for scope annotates, given the stored findings
ShownParas(scope) ==
  {TargetPara(evaluationResults[k], scope) :
     k \in {j \in 1..Len(evaluationResults) :
              evaluationResults[j].scope = scope /\ ResultHasIssues(evaluationResults[j])}}
    \ {0}

\* C14: clear-all removes the comments and the highlights of earlier passes:
\* after a pass that shows one scope, only the ranges that pass annotated
\* carry a highlight or a comment.
ClearAllComplete ==
  (op.name = "scope" /\ activeScope = op.arg /\ ShownParas(op.arg) # {}) =>
    /\ highlight \subseteq ShownParas(op.arg)
    /\ \A k \in 1..Len(comments) : comments[k].range \in ShownParas(op.arg)

\* the stored findings of scope ALL_SUMMARIES, with issues, whose target text
\* is the title of the Word document
TitleFindings ==
  {k \in 1..Len(evaluationResults) :
     /\ evaluationResults[k].scope = "all_summaries"
     /\ evaluationResults[k].target_text = TitleText(paragraphs)
     /\ ResultHasIssues(evaluationResults[k])}

\* C15: a finding of scope ALL_SUMMARIES whose target text is the document
\* title is annotated directly on the title paragraph, without a search tier:
\* after a pass that selects it the title paragraph is highlighted and carries
\* its comment, attached to the paragraph as the special case obtains it.
TitleAnnotatedDirectly ==
  ((op.name = "show_all" \/ (op.name = "scope" /\ op.arg = "all_summaries"))
     /\ 1 \notin unattachable) =>
    \A f \in TitleFindings :
      /\ 1 \in highlight
      /\ \E k \in 1..Len(comments) :
           /\ comments[k].range = 1
           /\ comments[k].text.scope = "all_summaries"
           /\ comments[k].via = "title"

(***************************************************************************)
(* Properties of the resolver and the passes (SpecResolve)                 *)
(***************************************************************************)
ClaimedOrder ==
  << "document_wide", "all_summaries", "summary_pairs",
     "summary_with_messages", "messages_under_summary", "message_with_bodies" >>

\* positions in the claimed order of the scopes that have a stored finding
\* with a failing criterion
FlaggedPositions ==
  {k \in 1..6 :
     \E j \in 1..Len(evaluationResults) :
       /\ evaluationResults[j].scope = ClaimedOrder[k]
       /\ \E c \in 1..Len(evaluationResults[j].criteria_results) :
            evaluationResults[j].criteria_results[c].has_issues}

\* C3: the resolver picks the first scope of the fixed order that has a finding
\* with a failing criterion, and that scope alone is shown; issues only in
\* message_with_bodies resolve to it, issues in document_wide and
\* summary_pairs resolve to document_wide.
ResolverPriority ==
  (op.name = "highest" /\ FlaggedPositions # {}) =>
    /\ op.arg = ClaimedOrder[SetMin(FlaggedPositions)]
    /\ activeScope = op.arg
    /\ \A k \in 1..Len(comments) : comments[k].text.scope = op.arg
    /\ FlaggedPositions = {6} => op.arg = "message_with_bodies"
    /\ {1, 3} \subseteq FlaggedPositions => op.arg = "document_wide"

\* summary_pairs stored before document_wide, both flagged, and resolved
ResolverPriorityWitness ==
  /\ op.name = "highest"
  /\ Len(evaluationResults) = 2
  /\ evaluationResults[1] = Flagged("summary_pairs")
  /\ evaluationResults[2] = Flagged("document_wide")
  /\ activeScope = "document_wide"
  /\ Len(comments) = 1

\* C4: a pass (show-all or filter-by-scope) run a second time in a row on the
\* same findings and document leaves as many live comments as the first run.
PassTwiceStep ==
  (op'.again /\ op'.name \in {"scope", "show_all"}) => Len(comments') = Len(comments)

PassTwice == [][PassTwiceStep]_vars

\* show-all ran twice in a row and two comments are live
PassTwiceWitness ==
  /\ op.name = "show_all"
  /\ op.again
  /\ Len(comments) = 2

(***************************************************************************)
(* Properties of run() (SpecSession, SpecScore)                            *)
(***************************************************************************)
IsFailure(o) == o.kind \in FailureKinds \/ ~o.body.hasResults

NoCandidates == ExtractBullets(paragraphs, TitleText(paragraphs)) = <<>>

\* C5: when the request fails (transport error, non-2xx status, malformed
\* payload), run() leaves evaluationResults, lastCheckResults, commentRanges,
\* the displayed score, the comments and the highlights unchanged and logs
\* the failure.
FailedCheckStep ==
  \A o \in Outcomes :
    (Run({o}) /\ sent'.posted /\ IsFailure(o)) =>
      /\ UNCHANGED <<evaluationResults, lastCheckResults, commentRanges, scoreUI>>
      /\ UNCHANGED <<comments, highlight>>
      /\ "api_error" \in logged'

FailedCheckKeepsState == [][FailedCheckStep]_vars

\* C6: with zero bullet candidates the builder returns null (and only then),
\* run() posts no request and changes neither annotations nor session state.
NoStructureStep ==
  op'.name = "run" =>
    /\ (ret' = NullRequest) <=> NoCandidates
    /\ NoCandidates =>
         /\ sent' = NoPost
         /\ UNCHANGED <<annVars, stateVars>>

NoStructureNoRequest == [][NoStructureStep]_vars

\* run() met a document without candidates after an annotated check
NoStructureWitness ==
  /\ op.name = "run"
  /\ NoCandidates
  /\ ret = NullRequest
  /\ sent = NoPost
  /\ logged = {"no_bullets"}
  /\ Len(evaluationResults) > 0
  /\ Len(comments) > 0

\* C8: a score that is absent, null or not a number is shown as 100 with the
\* top message tier; any other score is shown rounded to the nearest integer,
\* with the tier given by the thresholds 90, 70, 50, 30.
ScoreShown ==
  IF lastCheckResults = NoResponse THEN scoreUI = NoScore
  ELSE LET sc == lastCheckResults.score
           n == scoreUI.value
       IN /\ scoreUI.shown
          /\ IF sc.t \in {"undefined", "null", "text"}
             THEN n = 100 /\ scoreUI.tier = "excellent"
             ELSE /\ 10 * n - 5 <= sc.v /\ sc.v < 10 * n + 5
                  /\ scoreUI.tier = "excellent" <=> n >= 90
                  /\ scoreUI.tier = "good" <=> (70 <= n /\ n < 90)
                  /\ scoreUI.tier = "fair" <=> (50 <= n /\ n < 70)
                  /\ scoreUI.tier = "poor" <=> (30 <= n /\ n < 50)
                  /\ scoreUI.tier = "bad" <=> n < 30

\* the response carried score null
ScoreShownWitness ==
  /\ lastCheckResults # NoResponse
  /\ lastCheckResults.score = Score("null", 0)
  /\ scoreUI.value = 100
  /\ scoreUI.tier = "excellent"

\* the stored findings of one scope that have a failing criterion
FlaggedOf(scope) ==
  {k \in 1..Len(evaluationResults) :
     /\ evaluationResults[k].scope = scope
     /\ \E c \in 1..Len(evaluationResults[k].criteria_results) :
          evaluationResults[k].criteria_results[c].has_issues}

\* the comment a pass for scope writes for finding r
ExpectedText(r, scope) ==
  LET bad == SelectSeq(r.criteria_results, HasIssues)
  IN [scope |-> scope,
      items |-> [c \in 1..Len(bad) |-> [criteria |-> bad[c].criteria, issues |-> bad[c].issues]]]

\* the stored findings of one scope a pass can annotate: located, attachable
Annotatable(scope) ==
  {k \in FlaggedOf(scope) :
     TargetPara(evaluationResults[k], scope) \notin unattachable \cup {0}}

\* C16: a pass for a scope the user selected annotates exactly the stored
\* findings of that scope: every comment it leaves is the comment of a finding
\* of the scope, none of another scope, and every finding of the scope that
\* has something to report and a range to carry it has its comment.
FilterExact ==
  (op.name = "scope" /\ Len(evaluationResults) > 0) =>
    /\ \A c \in 1..Len(comments) :
         \E k \in Annotatable(op.arg) :
           /\ comments[c].text = ExpectedText(evaluationResults[k], op.arg)
           /\ comments[c].range = TargetPara(evaluationResults[k], op.arg)
    /\ \A k \in Annotatable(op.arg) :
         \E c \in 1..Len(comments) :
           /\ comments[c].text = ExpectedText(evaluationResults[k], op.arg)
           /\ comments[c].range = TargetPara(evaluationResults[k], op.arg)
    /\ Len(comments) = Cardinality(Annotatable(op.arg))

\* two flagged findings of different scopes stored, one of them shown
FilterExactWitness ==
  /\ op.name = "scope"
  /\ op.arg = "message_with_bodies"
  /\ Len(evaluationResults) = 2
  /\ evaluationResults[1] = Flagged("summary_pairs")
  /\ evaluationResults[2] = Flagged("message_with_bodies")
  /\ Len(comments) = 1
  /\ comments[1].text.scope = "message_with_bodies"

(***************************************************************************)
(* Properties of the resolver inside run() (SpecCheck)                     *)
(***************************************************************************)
\* an answer that is annotated and in which no criterion of any finding fails
AllPass(o) ==
  /\ o.kind = "json"
  /\ o.body.hasResults
  /\ o.body.status = "success"
  /\ Len(o.body.results) > 0
  /\ \A k \in 1..Len(o.body.results) :
       \A c \in 1..Len(o.body.results[k].criteria_results) :
         ~o.body.results[k].criteria_results[c].has_issues

\* C17: when no scope has a failing criterion the resolver selects no scope
\* and the fallback over all findings is a no-op: after run() has deleted the
\* comments, no comment and no highlight is added, and the highlights, the
\* handles and the active scope stay as they were.
NoneStep ==
  \A o \in CheckOutcomes :
    (Run({o}) /\ sent'.posted /\ AllPass(o)) =>
      /\ Len(comments') = 0
      /\ UNCHANGED <<highlight, redText, commentRanges, activeScope>>
      /\ logged' = {}

NoneIsNoOp == [][NoneStep]_vars

\* a check whose findings all pass, on a document annotated by an earlier check
NoneIsNoOpWitness ==
  /\ op.name = "run"
  /\ sent.posted
  /\ lastCheckResults # NoResponse
  /\ lastCheckResults.status = "success"
  /\ evaluationResults = << Clean("summary_pairs"), Clean("document_wide") >>
  /\ highlight # {}
  /\ activeScope = "summary_pairs"
  /\ comments = <<>>

(***************************************************************************)
(* Properties of a pass after a partial pass (SpecResolve)                 *)
(***************************************************************************)
\* the paragraphs a pass annotates: of one scope, or of every scope (show-all)
PassParas(name, arg) ==
  IF name = "scope" THEN ShownParas(arg)
  ELSE UNION {ShownParas(sc) : sc \in Scopes}

\* C18: failures inside a pass are caught at its boundary and leave nothing
\* that blocks the next pass, which begins by clearing the existing
\* annotations: after a pass that follows a partial pass (a finding not
\* located, or a comment not attached), the highlights and comments of the
\* document are those of the later pass alone.
PartialPassStep ==
  (("comment_error" \in logged \/ "not_found" \in logged)
     /\ op'.name \in {"scope", "show_all"}) =>
    /\ highlight' \subseteq PassParas(op'.name, op'.arg)
    /\ \A k \in 1..Len(comments') : comments'[k].range \in PassParas(op'.name, op'.arg)
    /\ "pass_error" \notin logged'

PassAfterPartialPass == [][PartialPassStep]_vars

(***************************************************************************)
(* Properties of the loop over the findings of one pass (SpecResolve)      *)
(***************************************************************************)
\* the positions of the stored findings a pass goes through, in order
PassFindings(name, arg) ==
  {k \in 1..Len(evaluationResults) :
     /\ ResultHasIssues(evaluationResults[k])
     /\ name = "scope" => evaluationResults[k].scope = arg}

\* the paragraph of the range of stored finding k, 0 when none is found
ParaOf(k) == TargetPara(evaluationResults[k], evaluationResults[k].scope)

\* the key under which the handle of stored finding k is kept
KeyOf(k) ==
  <<evaluationResults[k].scope,
    SelectSeq(evaluationResults[k].criteria_results, HasIssues)[1].criteria>>

Missed(sel) == {k \in sel : ParaOf(k) = 0}
Refused(sel) == {k \in sel : ParaOf(k) # 0 /\ ParaOf(k) \in unattachable}
Attached(sel) == (sel \ Missed(sel)) \ Refused(sel)

\* C19: a finding the locator finds no range for is skipped alone: the miss
\* is logged, the finding gets no highlight, no comment and no handle, and
\* every later finding of the same pass is still processed.
SearchMissStep ==
  LET sel == PassFindings(op'.name, op'.arg)
  IN (op'.name \in {"scope", "show_all"} /\ Missed(sel) # {}) =>
       /\ "not_found" \in logged'
       /\ "pass_error" \notin logged'
       /\ highlight' \ highlight \subseteq {ParaOf(k) : k \in sel \ Missed(sel)}
       /\ Len(comments') = Cardinality(Attached(sel))
       /\ \A k \in Missed(sel) :
            /\ (\E e \in commentRanges' : e[1] = KeyOf(k)) =>
                 \E j \in Attached(sel) : KeyOf(j) = KeyOf(k)
            /\ \A j \in sel \ Missed(sel) :
                 j > k =>
                   /\ ParaOf(j) \in highlight'
                   /\ j \in Attached(sel) =>
                        /\ \E c \in 1..Len(comments') :
                             /\ comments'[c].range = ParaOf(j)
                             /\ comments'[c].text =
                                  ExpectedText(evaluationResults[j],
                                               evaluationResults[j].scope)
                        /\ \E e \in commentRanges' : e[1] = KeyOf(j)

SearchMissPerItem == [][SearchMissStep]_vars

\* show-all went past a finding whose text is not in the document and
\* annotated the finding after it
SearchMissWitness ==
  /\ op.name = "show_all"
  /\ Len(evaluationResults) = 2
  /\ evaluationResults[1] = Flagged("messages_under_summary")
  /\ evaluationResults[2] = Flagged("document_wide")
  /\ "not_found" \in logged
  /\ highlight = {4}
  /\ Len(comments) = 1
  /\ comments[1].range = 4
  /\ commentRanges = {<<<<"document_wide", "rhetorical_expression">>, 4>>}

\* C20: a comment that cannot be attached to a located range fails alone:
\* the error is caught and logged, the highlight applied to the range stays,
\* no handle is recorded for the finding, and every later finding of the same
\* pass is still processed.
AnnotationFailureStep ==
  LET sel == PassFindings(op'.name, op'.arg)
  IN (op'.name \in {"scope", "show_all"} /\ Refused(sel) # {}) =>
       /\ "comment_error" \in logged'
       /\ "pass_error" \notin logged'
       /\ Len(comments') = Cardinality(Attached(sel))
       /\ \A k \in Refused(sel) :
            /\ ParaOf(k) \in highlight'
            /\ \A c \in 1..Len(comments') : comments'[c].range # ParaOf(k)
            /\ (\E e \in commentRanges' : e[1] = KeyOf(k)) =>
                 \E j \in Attached(sel) : KeyOf(j) = KeyOf(k)
            /\ \A j \in sel \ Missed(sel) :
                 j > k =>
                   /\ ParaOf(j) \in highlight'
                   /\ j \in Attached(sel) =>
                        /\ \E c \in 1..Len(comments') :
                             /\ comments'[c].range = ParaOf(j)
                             /\ comments'[c].text =
                                  ExpectedText(evaluationResults[j],
                                               evaluationResults[j].scope)
                        /\ \E e \in commentRanges' : e[1] = KeyOf(j)

AnnotationFailurePerItem == [][AnnotationFailureStep]_vars

\* show-all highlighted a paragraph that refused its comment and annotated
\* the finding after it
AnnotationFailureWitness ==
  /\ op.name = "show_all"
  /\ unattachable = {3}
  /\ Len(evaluationResults) = 2
  /\ evaluationResults[1] = Flagged("summary_with_messages")
  /\ evaluationResults[2] = Flagged("document_wide")
  /\ "comment_error" \in logged
  /\ highlight = {3, 4}
  /\ Len(comments) = 1
  /\ comments[1].range = 4
  /\ commentRanges = {<<<<"document_wide", "rhetorical_expression">>, 4>>}

(***************************************************************************)
(* Properties of the handle table commentRanges (SpecResolve)              *)
(***************************************************************************)
\* the last finding of sel with the key of finding k that got its comment
LastAttached(sel, k) ==
  SetMax({j \in Attached(sel) : KeyOf(j) = KeyOf(k)})

\* C21: commentRanges is destroyed and rebuilt by every pass: after a pass it
\* holds exactly one entry per key of a comment attached in that pass (the
\* last write), and no entry of an earlier pass, also when the pass selects
\* no finding.
HandlesRebuilt ==
  LET sel == PassFindings(op.name, op.arg)
  IN (op.name \in {"scope", "show_all"} /\ Len(evaluationResults) > 0) =>
       /\ \A e \in commentRanges :
            \E k \in Attached(sel) :
              e = <<KeyOf(k), ParaOf(LastAttached(sel, k))>>
       /\ \A k \in Attached(sel) :
            <<KeyOf(k), ParaOf(LastAttached(sel, k))>> \in commentRanges

(***************************************************************************)
(* Properties of what a pass annotates (SpecResolve)                       *)
(***************************************************************************)
IsFailing(cr) == cr.has_issues = TRUE

\* the stored findings with at least one failing criterion
FailingFindings ==
  {k \in 1..Len(evaluationResults) :
     \E c \in 1..Len(evaluationResults[k].criteria_results) :
       IsFailing(evaluationResults[k].criteria_results[c])}

\* the body of the comment of stored finding k: the scope line and one entry
\* for each failing criterion, in order
FailingBody(k) ==
  LET bad == SelectSeq(evaluationResults[k].criteria_results, IsFailing)
  IN [scope |-> evaluationResults[k].scope,
      items |-> [c \in 1..Len(bad) |-> [criteria |-> bad[c].criteria,
                                        issues |-> bad[c].issues]]]

\* C22: only findings with a failing criterion are annotated: every highlight
\* and every comment is on the range of such a finding, a finding whose
\* criteria all pass gets neither, and each annotated finding has a single
\* comment, whose body lists exactly its failing criteria.
OnlyFailingAnnotated ==
  /\ highlight \subseteq {ParaOf(k) : k \in FailingFindings}
  /\ \A c \in 1..Len(comments) :
       \E k \in FailingFindings :
         /\ comments[c].range = ParaOf(k)
         /\ comments[c].text = FailingBody(k)
  /\ \A k \in FailingFindings :
       Cardinality({c \in 1..Len(comments) :
                      comments[c].range = ParaOf(k) /\ comments[c].text = FailingBody(k)})
         <= Cardinality({j \in FailingFindings :
                           ParaOf(j) = ParaOf(k) /\ FailingBody(j) = FailingBody(k)})

\* show-all passed over a finding with no failing criterion and wrote the
\* two failing criteria of the three of the finding after it
OnlyFailingWitness ==
  /\ op.name = "show_all"
  /\ Len(evaluationResults) = 2
  /\ evaluationResults[1] = Clean("document_wide")
  /\ evaluationResults[2] = MixedFinding
  /\ highlight = {3}
  /\ Len(comments) = 1
  /\ Len(comments[1].text.items) = 2
  /\ comments[1].text.items[1].criteria = "inappropriate_conjunctions"

(***************************************************************************)
(* Properties of the title of the request (SpecBuild)                      *)
(***************************************************************************)
\* the paragraphs with text that are not classified as bullets, and those
\* that are and keep text after the cleanup
PlainParas ==
  {k \in 1..Len(paragraphs) :
     Trim(paragraphs[k].text) # <<>> /\ ~IsBulletPoint(paragraphs[k])}

BulletParas ==
  {k \in 1..Len(paragraphs) :
     /\ Trim(paragraphs[k].text) # <<>>
     /\ IsBulletPoint(paragraphs[k])
     /\ CleanText(paragraphs[k]) # <<>>}

\* the number of Summaries, Messages and Bodies of r that are not placeholders
RealNodes(r) ==
  Len(SelectSeq(RetSummaries(r), NotPlaceholder))
    + Len(SelectSeq(RetMessages(r), NotPlaceholder))
    + Len(SelectSeq(RetBodies(r), NotPlaceholder))

\* C23: the title of the request is the first non-empty paragraph that is
\* not classified as a bullet, and it is not part of the hierarchy; a first
\* paragraph that is classified as a bullet is not taken as the title and
\* stays in the hierarchy.
TitleIsFirstPlainParagraph ==
  (calls >= 1 /\ ret # NullRequest) =>
    /\ PlainParas # {} => ret.title = paragraphs[SetMin(PlainParas)].text
    /\ 1 \in BulletParas => ret.title # paragraphs[1].text
    /\ RealNodes(ret) = Cardinality(BulletParas)

(***************************************************************************)
(* Properties of the level inference (SpecBuild)                           *)
(***************************************************************************)
\* the left indent of the paragraph candidate k of the build was made from
IndentOf(k) == paragraphs[bld.bulletPoints[k].paragraph].leftIndent

KeywordHits ==
  {i \in 1..Len(extractKeywords(target)) :
     SearchBody(paragraphs, extractKeywords(target)[i]) # 0}

\* C25: when the earlier tiers all fail the locator takes the tokens of the
\* target of length >= 3 that are not stop words, deduplicated in order, and
\* returns the first hit in the body of the first keyword that has one; it
\* answers "not found" only if no keyword has a hit.
KeywordFallback ==
  /\ foundTp.tier \in {"keyword", "not_found"} =>
       IF KeywordHits = {}
       THEN foundTp.tier = "not_found"
       ELSE /\ foundTp.tier = "keyword"
            /\ foundTp.para =
                 SearchBody(paragraphs, extractKeywords(target)[SetMin(KeywordHits)])
  /\ found.tier = "not_found" => KeywordHits = {}

(***************************************************************************)
(* Properties of the discarded candidates (SpecBuild)                      *)
(***************************************************************************)
\* C26: a candidate whose text is empty after the cleanup is discarded: no
\* Summary, Message or Body of the tree has empty content, and the step over
\* a discarded candidate leaves currentSummary, currentMessage and the tree
\* as they were.
DiscardStep ==
  (bld.pc = "loop" /\ bld'.pc = "loop" /\ bld'.i = bld.i + 1) =>
    /\ \A n \in 1..Len(FlatSummaries(bld', 1)) : FlatSummaries(bld', 1)[n].content # <<>>
    /\ bld.bulletPoints[bld.i].text = <<>> =>
         /\ bld'.currentSummary = bld.currentSummary
         /\ bld'.currentMessage = bld.currentMessage
         /\ bld'.sums = bld.sums
         /\ bld'.msgs = bld.msgs
         /\ bld'.summaries = bld.summaries

EmptyDiscarded == [][DiscardStep]_vars

\* a glyph-only candidate was stepped over after a Summary and a Message
EmptyDiscardedWitness ==
  /\ bld.pc = "loop"
  /\ bld.i = 4
  /\ Len(bld.bulletPoints) = 3
  /\ bld.bulletPoints[3].text = <<>>
  /\ bld.currentSummary = 1
  /\ bld.currentMessage = 1
  /\ Len(bld.sums) = 1
  /\ Len(bld.msgs) = 1

(***************************************************************************)
(* Properties of the attachment of candidates (SpecBuild)                  *)
(***************************************************************************)
\* the Summary started last: the last one pushed to the result
LastSummary(b) == b.summaries[Len(b.summaries)]

\* the Messages holding a Body made from candidate k
MessagesOfBody(b, k) ==
  {m \in 1..Len(b.msgs) : \E h \in 1..Len(b.msgs[m].bodies) : b.msgs[m].bodies[h].src = k}

\* C27: a level-0 candidate starts a new Summary and resets currentMessage to
\* null, so a level-2 candidate that follows it goes under a Message made for
\* it, never under a Message of an earlier Summary; a level-1 or level-2
\* candidate is attached under the Summary started last.
AttachStep ==
  (bld.pc = "loop" /\ bld'.pc = "loop" /\ bld'.i = bld.i + 1
     /\ bld.bulletPoints[bld.i].text # <<>>) =>
    LET level == bld.bulletPoints[bld.i].level
        last == bld'.sums[LastSummary(bld')]
    IN /\ level = 0 =>
            /\ bld'.currentMessage = 0
            /\ Len(bld'.summaries) = Len(bld.summaries) + 1
            /\ bld'.currentSummary = LastSummary(bld')
            /\ last.src = bld.i
            /\ last.messages = <<>>
       /\ level = 1 =>
            /\ bld'.msgs[bld'.currentMessage].src = bld.i
            /\ last.messages # <<>>
            /\ last.messages[Len(last.messages)] = bld'.currentMessage
       /\ level = 2 =>
            /\ MessagesOfBody(bld', bld.i) = {bld'.currentMessage}
            /\ last.messages # <<>>
            /\ last.messages[Len(last.messages)] = bld'.currentMessage
            /\ (bld.i > 1 /\ bld.bulletPoints[bld.i - 1].level = 0
                  /\ bld.bulletPoints[bld.i - 1].text # <<>>) =>
                 /\ bld'.currentMessage = Len(bld.msgs) + 1
                 /\ bld'.msgs[bld'.currentMessage].src = 0

AttachUnderLastSummary == [][AttachStep]_vars

\* a Message (under a placeholder Summary), a Summary, then a level-2
\* candidate: its Body is under a placeholder Message of the second Summary
AttachWitness ==
  /\ bld.pc = "loop"
  /\ bld.i = 4
  /\ Len(bld.bulletPoints) = 3
  /\ bld.bulletPoints[1].level = 1
  /\ bld.bulletPoints[2].level = 0
  /\ bld.bulletPoints[3].level = 2
  /\ Len(bld.summaries) = 2
  /\ Len(bld.msgs) = 2
  /\ bld.msgs[1].src = 1
  /\ bld.msgs[2].src = 0
  /\ bld.sums[2].messages = <<2>>
  /\ MessagesOfBody(bld, 3) = {2}

(***************************************************************************)
(* Properties of the click listeners (SpecAsync)                           *)
(***************************************************************************)
\* C28: each button keeps one click listener through the initialisation and
\* every later call of setupScopeButtons, so that one click starts exactly
\* one annotation pass.
OneListenerStep ==
  /\ listeners'.scope = 1
  /\ listeners'.showAll = 1
  /\ Cardinality(InFlight') <= Cardinality(InFlight) + 1

OnePassPerClick == [][OneListenerStep]_vars

(***************************************************************************)
(* Properties of the passes without stored findings (SpecSession)          *)
(***************************************************************************)
\* C29: while no finding is stored, a click on a scope button or on show-all
\* and the priority resolver leave the document as it is: no comment is
\* deleted, no highlight or comment is added, and commentRanges and
\* activeScope are not written.
EmptyResultsStep ==
  /\ (Len(evaluationResults) = 0 /\ op'.name \in {"scope", "show_all"}) =>
       /\ UNCHANGED <<comments, highlight, redText, commentRanges, activeScope>>
       /\ "no_results" \in logged'
  /\ (op'.name = "run" /\ sent'.posted /\ lastCheckResults' # NoResponse
        /\ lastCheckResults' # lastCheckResults
        /\ lastCheckResults'.hasResults /\ lastCheckResults'.status = "success"
        /\ Len(evaluationResults') = 0) =>
       /\ UNCHANGED <<highlight, redText, commentRanges, activeScope>>
       /\ Len(comments') <= Len(comments)
       /\ "no_results" \in logged'

EmptyResultsNoOp == [][EmptyResultsStep]_vars

\* a scope button was clicked when the last answer had stored no finding and
\* the comments of an earlier check were still in the document
EmptyResultsWitness ==
  /\ op.name = "scope"
  /\ Len(evaluationResults) = 0
  /\ "no_results" \in logged
  /\ Len(comments) > 0
  /\ commentRanges # {}
  /\ activeScope # NULL

(***************************************************************************)
(* Properties of run() on an answer whose status is not "success"          *)
(* (SpecSession)                                                           *)
(***************************************************************************)
\* C30: run() changes the annotations only when the status of the answer is
\* "success": for any other status no comment is cleared and no highlight or
\* comment is added, and the stored findings stay consistent with the
\* annotations shown: every comment in the document is the comment of a
\* stored finding.
NotSuccessStep ==
  (op'.name = "run" /\ sent'.posted /\ lastCheckResults' # NoResponse
     /\ lastCheckResults'.status # "success") =>
    /\ UNCHANGED <<comments, highlight, redText>>
    /\ \A c \in 1..Len(comments') :
         \E k \in 1..Len(evaluationResults') :
           /\ evaluationResults'[k].scope = comments'[c].text.scope
           /\ \E i \in 1..Len(evaluationResults'[k].criteria_results) :
                evaluationResults'[k].criteria_results[i].has_issues

AnnotateOnlyOnSuccess == [][NotSuccessStep]_vars

====
